---- MODULE Spec2Model ----
(***************************************************************************)
(* TeleOps: rule-based incident correlation                                *)
(* (src/teleops/incident_corr/correlator.py) over the alert and incident   *)
(* tables (src/teleops/models.py).                                         *)
(*                                                                         *)
(* Conventions                                                             *)
(*  - a timestamp is an integer number of seconds; a timedelta's           *)
(*    total_seconds() is the difference of two of them;                    *)
(*  - Python None in an optional string column is NoneVal;                 *)
(*  - a JSON tags column is [isNone, items]: isNone for null, items the    *)
(*    set of <<key, value>> pairs of the dict;                             *)
(*  - a float produced by _percentile is kept exactly, as Scale times its  *)
(*    value (an integer): with integer pct, Scale * k is an integer;       *)
(*  - an f-string built from fixed-width parts is the tuple of its parts   *)
(*    (the incident id "<tag>_<ts>_<hex>" is <<tag, ts, hex>>, the summary *)
(*    is <<SummaryPrefix, tag>>): equal strings iff equal tuples.          *)
(*  - query.all() has no ORDER BY: rows come in insertion order;           *)
(*  - an exception ends a call with run.error set and nothing returned;    *)
(*    the properties of what a call returns are stated for calls that      *)
(*    return.                                                              *)
(***************************************************************************)
EXTENDS Integers, Sequences, FiniteSets, TLC

\* alerts, incidents: the rows of the two tables, in insertion order.
\* run: the frame of the last correlate_alerts call (its arguments, locals
\*      and outcome; built is the list `incidents` of Incident objects the
\*      loop constructed), Idle once another request has been served.
\* source: the input the alerts come from (a bounded family of inputs).
\* calc: the frame of the last call of one of the functions that touch no
\*       table (_percentile, baseline_rca, compute_quality_metrics): its
\*       arguments and what it returned; NoCall before any.
VARIABLES alerts, incidents, run, source, calc

vars == <<alerts, incidents, run, source, calc>>

NoneVal == "None"

NoCall == [fn |-> NoneVal]

SummaryPrefix == "Correlated incident for tag: "

\* pct / 100 in _percentile: results are carried multiplied by Scale.
Scale == 100

\* The percentile correlate_alerts asks for.
NoisePct == 25

(***************************************************************************)
(* Bounds of the model                                                     *)
(***************************************************************************)
MaxAlerts == 6

MaxFieldAlerts == 2

MaxIncidents == 3

MaxMinAlerts == 3

(***************************************************************************)
(* Python values                                                           *)
(***************************************************************************)
TagsNull == [isNone |-> TRUE, items |-> {}]

TagsDict(items) == [isNone |-> FALSE, items |-> items]

IncidentTags(tag) == TagsDict({<<"incident", tag>>})

\* bool(alert.tags): None and {} are falsy.
Truthy(tags) == ~tags.isNone /\ tags.items # {}

HasKey(tags, key) == \E p \in tags.items : p[1] = key

\* dict.get(key, default)
DictGet(tags, key, default) ==
    IF HasKey(tags, key)
    THEN (CHOOSE p \in tags.items : p[1] = key)[2]
    ELSE default

NoIds == [isNone |-> TRUE, ids |-> <<>>]

IdList(ids) == [isNone |-> FALSE, ids |-> ids]

Range(s) == {s[i] : i \in 1..Len(s)}

RECURSIVE SelectSeq2(_, _)
\* [x for x in s if x.id in ids], in the order of s
SelectSeq2(s, ids) ==
    IF s = <<>> THEN <<>>
    ELSE IF Head(s).id \in ids
         THEN <<Head(s)>> \o SelectSeq2(Tail(s), ids)
         ELSE SelectSeq2(Tail(s), ids)

(***************************************************************************)
(* sorted(values) and list.sort(key=...): stable, ascending                *)
(***************************************************************************)
RECURSIVE InsertInt(_, _)
\* x goes after every element that is <= x (stability).
InsertInt(s, x) ==
    IF s = <<>> THEN <<x>>
    ELSE IF Head(s) <= x
         THEN <<Head(s)>> \o InsertInt(Tail(s), x)
         ELSE <<x>> \o s

RECURSIVE Sorted(_)
\* sorted(values): a new list, the argument is left as it is
Sorted(values) ==
    IF values = <<>> THEN <<>>
    ELSE InsertInt(Sorted(SubSeq(values, 1, Len(values) - 1)), values[Len(values)])

RECURSIVE InsertByTimestamp(_, _)
InsertByTimestamp(s, a) ==
    IF s = <<>> THEN <<a>>
    ELSE IF Head(s).timestamp <= a.timestamp
         THEN <<Head(s)>> \o InsertByTimestamp(Tail(s), a)
         ELSE <<a>> \o s

RECURSIVE SortByTimestamp(_)

\* Mutant of SortByTimestamp: the list is left in row order.
SortByTimestampMissing(tagged_alerts) == tagged_alerts

\* tagged_alerts.sort(key=lambda a: a.timestamp)
SortByTimestamp(tagged_alerts) ==
    IF tagged_alerts = <<>> THEN <<>>
    ELSE InsertByTimestamp(
             SortByTimestamp(SubSeq(tagged_alerts, 1, Len(tagged_alerts) - 1)),
             tagged_alerts[Len(tagged_alerts)])

Min2(a, b) == IF a <= b THEN a ELSE b

RECURSIVE SeqMin(_)
SeqMin(s) == IF Len(s) = 1 THEN s[1] ELSE Min2(s[1], SeqMin(Tail(s)))

RECURSIVE SeqMax(_)
SeqMax(s) == IF Len(s) = 1 THEN s[1]
             ELSE IF s[1] >= SeqMax(Tail(s)) THEN s[1] ELSE SeqMax(Tail(s))

(***************************************************************************)
(* _percentile(values, pct), times Scale                                   *)
(***************************************************************************)
\* Mutant of Percentile: the upper order statistic, without interpolation.
PercentileUpper(values, pct) ==
    LET values_sorted == Sorted(values)
        n == Len(values_sorted)
        f == ((n - 1) * pct) \div Scale
        c == Min2(f + 1, n - 1)
    IN  IF n = 0 THEN 0
        ELSE IF n = 1 THEN Scale * values_sorted[1]
        ELSE IF pct <= 0 THEN Scale * values_sorted[1]
        ELSE IF pct >= 100 THEN Scale * values_sorted[n]
        ELSE Scale * values_sorted[c + 1]

Percentile(values, pct) ==
    LET values_sorted == Sorted(values)
        n == Len(values_sorted)
        k100 == (n - 1) * pct             \* Scale * k
        f == k100 \div Scale              \* int(k), k >= 0
        c == Min2(f + 1, n - 1)
    IN  IF n = 0 THEN 0
        ELSE IF n = 1 THEN Scale * values_sorted[1]
        ELSE IF pct <= 0 THEN Scale * values_sorted[1]
        ELSE IF pct >= 100 THEN Scale * values_sorted[n]
        ELSE IF f = c THEN Scale * values_sorted[f + 1]
        ELSE values_sorted[f + 1] * (Scale * c - k100)
             + values_sorted[c + 1] * (k100 - Scale * f)

(***************************************************************************)
(* Python float: IEEE 754 binary64, nonnegative and normal                 *)
(*                                                                         *)
(* A natural of any size is the sequence of its digits in base Base, least *)
(* significant first, without leading zeros (0 is <<>>).  A double is      *)
(* [m, e], the value m * 2^e: zero is [<<>>, 0], any other has a mantissa  *)
(* m of exactly Precision bits.  Every operation rounds its exact result   *)
(* to nearest, ties to even.                                               *)
(***************************************************************************)
Precision == 53

LimbBits == 13

Base == 2 ^ LimbBits

RECURSIVE BigOfNat(_)
BigOfNat(n) == IF n = 0 THEN <<>> ELSE <<n % Base>> \o BigOfNat(n \div Base)

RECURSIVE NatOfBig(_)
NatOfBig(a) == IF a = <<>> THEN 0 ELSE a[1] + Base * NatOfBig(Tail(a))

RECURSIVE BitLenNat(_)
BitLenNat(n) == IF n = 0 THEN 0 ELSE 1 + BitLenNat(n \div 2)

BigBitLen(a) ==
    IF a = <<>> THEN 0 ELSE LimbBits * (Len(a) - 1) + BitLenNat(a[Len(a)])

BigTrim(a) ==
    IF \A i \in 1..Len(a) : a[i] = 0 THEN <<>>
    ELSE SubSeq(a, 1, CHOOSE i \in 1..Len(a) :
                          a[i] # 0 /\ \A j \in (i + 1)..Len(a) : a[j] = 0)

LimbAt(a, i) == IF i >= 1 /\ i <= Len(a) THEN a[i] ELSE 0

BigLess(a, b) ==
    IF Len(a) # Len(b) THEN Len(a) < Len(b)
    ELSE \E i \in 1..Len(a) :
             a[i] < b[i] /\ \A j \in (i + 1)..Len(a) : a[j] = b[j]

RECURSIVE BigAddC(_, _, _)
BigAddC(a, b, carry) ==
    IF a = <<>> /\ b = <<>>
    THEN BigOfNat(carry)
    ELSE LET x == LimbAt(a, 1) + LimbAt(b, 1) + carry
         IN  <<x % Base>> \o BigAddC(SubSeq(a, 2, Len(a)), SubSeq(b, 2, Len(b)),
                                     x \div Base)

\* a - b - borrow, for a >= b + borrow
RECURSIVE BigSubB(_, _, _)
BigSubB(a, b, borrow) ==
    IF a = <<>> THEN <<>>
    ELSE LET x == a[1] - LimbAt(b, 1) - borrow
         IN  <<x % Base>> \o BigSubB(Tail(a), SubSeq(b, 2, Len(b)),
                                     IF x < 0 THEN 1 ELSE 0)

\* a * n + carry, for a natural n
RECURSIVE BigMulC(_, _, _)
BigMulC(a, n, carry) ==
    IF a = <<>> THEN BigOfNat(carry)
    ELSE LET x == a[1] * n + carry
         IN  <<x % Base>> \o BigMulC(Tail(a), n, x \div Base)

\* a \div den and a % den, for a natural den > 0
RECURSIVE BigDivSmall(_, _)
BigDivSmall(a, den) ==
    IF a = <<>> THEN [q |-> <<>>, rem |-> 0]
    ELSE LET hi == BigDivSmall(Tail(a), den)
             x == hi.rem * Base + a[1]
         IN  [q |-> <<x \div den>> \o hi.q, rem |-> x % den]

\* a * 2^s
BigShiftLeft(a, s) ==
    LET j == s % LimbBits
        up == [i \in 1..(Len(a) + 1) |->
                  (LimbAt(a, i) % 2 ^ (LimbBits - j)) * 2 ^ j
                  + LimbAt(a, i - 1) \div 2 ^ (LimbBits - j)]
    IN  IF a = <<>> THEN <<>>
        ELSE [i \in 1..(s \div LimbBits) |-> 0] \o BigTrim(up)

\* a \div 2^s
BigShiftRight(a, s) ==
    LET j == s % LimbBits
        rest == SubSeq(a, s \div LimbBits + 1, Len(a))
        down == [i \in 1..Len(rest) |->
                    LimbAt(rest, i) \div 2 ^ j
                    + (LimbAt(rest, i + 1) % 2 ^ j) * 2 ^ (LimbBits - j)]
    IN  BigTrim(down)

DoubleZero == [m |-> <<>>, e |-> 0]

\* The double nearest to (a + t) * 2^e, where 0 < t < 1 if sticky and
\* t = 0 if not; sticky only when a has more than Precision bits.
RoundDouble(a, e, sticky) ==
    LET d == BigBitLen(a) - Precision
        q == BigShiftRight(a, d)
        r == BigTrim(BigSubB(a, BigShiftLeft(q, d), 0))
        half == BigShiftLeft(<<1>>, d - 1)
        up == IF sticky THEN ~BigLess(r, half)
              ELSE \/ BigLess(half, r)
                   \/ ~BigLess(r, half) /\ q[1] % 2 = 1
        sum == IF up THEN BigAddC(q, <<1>>, 0) ELSE q
    IN  IF a = <<>> THEN DoubleZero
        ELSE IF d <= 0 THEN [m |-> BigShiftLeft(a, 0 - d), e |-> e + d]
        ELSE IF BigBitLen(sum) > Precision
             THEN [m |-> BigShiftRight(sum, 1), e |-> e + d + 1]
        ELSE [m |-> sum, e |-> e + d]

\* float(n), n >= 0
DoubleOfInt(n) == RoundDouble(BigOfNat(n), 0, FALSE)

\* num / den, for integers num >= 0 and den > 0
DoubleDiv(num, den) ==
    LET s == Precision + 1 + BitLenNat(den)
        d == BigDivSmall(BigShiftLeft(BigOfNat(num), s), den)
    IN  RoundDouble(BigTrim(d.q), 0 - s, d.rem # 0)

\* n * x, for an integer n >= 0
DoubleMulInt(n, x) == RoundDouble(BigTrim(BigMulC(x.m, n, 0)), x.e, FALSE)

\* The mantissa of x at the exponent e <= x.e
Shifted(x, e) == BigShiftLeft(x.m, x.e - e)

DoubleAdd(x, y) ==
    LET e == Min2(x.e, y.e)
    IN  RoundDouble(BigAddC(Shifted(x, e), Shifted(y, e), 0), e, FALSE)

\* x - y, for x >= y
DoubleSub(x, y) ==
    LET e == Min2(x.e, y.e)
    IN  RoundDouble(BigTrim(BigSubB(Shifted(x, e), Shifted(y, e), 0)), e, FALSE)

\* int(x)
DoubleInt(x) ==
    IF x.e >= 0 THEN NatOfBig(BigShiftLeft(x.m, x.e))
    ELSE NatOfBig(BigShiftRight(x.m, 0 - x.e))

(***************************************************************************)
(* _percentile(values, pct) in Python floats.  Percentile above is the     *)
(* same computation in exact arithmetic, which is what the floats give     *)
(* when no operation rounds, as for pct = NoisePct.                        *)
(***************************************************************************)
\* Lines 19-32, on the sorted copy.
RankSorted(values_sorted, pct) ==
    LET n == Len(values_sorted)
        k == DoubleMulInt(n - 1, DoubleDiv(pct, 100))
        f == DoubleInt(k)
        c == Min2(f + 1, n - 1)
        d0 == DoubleMulInt(values_sorted[f + 1], DoubleSub(DoubleOfInt(c), k))
        d1 == DoubleMulInt(values_sorted[c + 1], DoubleSub(k, DoubleOfInt(f)))
    IN  IF n = 0 THEN DoubleZero
        ELSE IF n = 1 THEN DoubleOfInt(values_sorted[1])
        ELSE IF pct <= 0 THEN DoubleOfInt(values_sorted[1])
        ELSE IF pct >= 100 THEN DoubleOfInt(values_sorted[n])
        ELSE IF f = c THEN DoubleOfInt(values_sorted[f + 1])
        ELSE DoubleAdd(d0, d1)

\* Mutant of PercentileFloat: the sample is read in the order given.
PercentileFloatUnsorted(values, pct) == RankSorted(values, pct)

PercentileFloat(values, pct) == RankSorted(Sorted(values), pct)

(***************************************************************************)
(* correlate_alerts: the query                                             *)
(***************************************************************************)
\* session.query(Alert), filtered by Alert.id.in_(alert_ids) when alert_ids
\* is truthy (neither None nor the empty list), then .all().
QueryAlerts(store, alert_ids) ==
    IF ~alert_ids.isNone /\ alert_ids.ids # <<>>
    THEN SelectSeq2(store, Range(alert_ids.ids))
    ELSE store

(***************************************************************************)
(* correlate_alerts: grouping by tag                                       *)
(***************************************************************************)
\* Mutant of TagLookup: alert.tags["incident"], which raises on a null map
\* (TypeError) and on a map without the key (KeyError).
TagLookupSubscript(alert) ==
    IF alert.tags.isNone THEN [error |-> "TypeError", tag |-> "unknown"]
    ELSE IF ~HasKey(alert.tags, "incident") THEN [error |-> "KeyError", tag |-> "unknown"]
    ELSE [error |-> NoneVal, tag |-> DictGet(alert.tags, "incident", "unknown")]

\* alert.tags.get("incident", "unknown") if alert.tags else "unknown"
\* error is the exception the expression raises, NoneVal when it raises none.
TagLookup(alert) ==
    [error |-> NoneVal,
     tag   |-> IF Truthy(alert.tags)
               THEN DictGet(alert.tags, "incident", "unknown")
               ELSE "unknown"]

HasGroup(groups, tag) == \E k \in 1..Len(groups) : groups[k].tag = tag

\* Mutant of AppendToGroup: alerts_by_tag[incident_tag] = [alert], which
\* drops the alerts the group already had.
AppendToGroupOverwrites(groups, tag, alert) ==
    IF HasGroup(groups, tag)
    THEN LET k == CHOOSE k \in 1..Len(groups) : groups[k].tag = tag
         IN  [groups EXCEPT ![k].alerts = <<alert>>]
    ELSE Append(groups, [tag |-> tag, alerts |-> <<alert>>])

\* alerts_by_tag[incident_tag].append(alert) on a defaultdict(list): a dict
\* keeps its keys in insertion order, so alerts_by_tag is a sequence of
\* [tag, alerts].
AppendToGroup(groups, tag, alert) ==
    IF HasGroup(groups, tag)
    THEN LET k == CHOOSE k \in 1..Len(groups) : groups[k].tag = tag
         IN  [groups EXCEPT ![k].alerts = Append(@, alert)]
    ELSE Append(groups, [tag |-> tag, alerts |-> <<alert>>])

RECURSIVE GroupLoop(_, _)
\* for alert in alerts: ...     acc is [error, groups]
GroupLoop(queried, acc) ==
    IF queried = <<>> \/ acc.error # NoneVal THEN acc
    ELSE LET r == TagLookup(Head(queried))
         IN  IF r.error # NoneVal
             THEN [acc EXCEPT !.error = r.error]
             ELSE GroupLoop(Tail(queried),
                            [acc EXCEPT !.groups = AppendToGroup(@, r.tag, Head(queried))])

GroupAlerts(queried) == GroupLoop(queried, [error |-> NoneVal, groups |-> <<>>])

(***************************************************************************)
(* correlate_alerts: the noise threshold                                   *)
(***************************************************************************)
TagCounts(groups) == [k \in 1..Len(groups) |-> Len(groups[k].alerts)]

NoThreshold == [isNone |-> TRUE, scaled |-> 0]

\* Mutant of NoiseThreshold: the median instead of the 25th percentile.
NoiseThresholdMedian(tag_counts) ==
    IF Len(tag_counts) >= 2 /\ SeqMin(tag_counts) # SeqMax(tag_counts)
    THEN [isNone |-> FALSE, scaled |-> Percentile(tag_counts, 50)]
    ELSE NoThreshold

\* Mutant of NoiseThreshold: no min != max test.
NoiseThresholdAlways(tag_counts) ==
    IF Len(tag_counts) >= 2
    THEN [isNone |-> FALSE, scaled |-> Percentile(tag_counts, NoisePct)]
    ELSE NoThreshold

\* threshold = None
\* if len(tag_counts) >= 2 and min(tag_counts) != max(tag_counts):
\*     threshold = _percentile(tag_counts, 25)
NoiseThreshold(tag_counts) ==
    IF Len(tag_counts) >= 2 /\ SeqMin(tag_counts) # SeqMax(tag_counts)
    THEN [isNone |-> FALSE, scaled |-> Percentile(tag_counts, NoisePct)]
    ELSE NoThreshold

(***************************************************************************)
(* correlate_alerts: the selection loop                                    *)
(***************************************************************************)
\* Mutant of Admitted: the window test is missing.
AdmittedIgnoresWindow(tagged_alerts, window_minutes, min_alerts, threshold) ==
    /\ ~(Len(tagged_alerts) < min_alerts)
    /\ ~(~threshold.isNone /\ Scale * Len(tagged_alerts) <= threshold.scaled)

\* Mutant of Admitted: len(tagged_alerts) <= min_alerts.
AdmittedOffByOne(tagged_alerts, window_minutes, min_alerts, threshold) ==
    LET sorted == SortByTimestamp(tagged_alerts)
    IN  /\ ~(Len(tagged_alerts) <= min_alerts)
        /\ ~(~threshold.isNone /\ Scale * Len(tagged_alerts) <= threshold.scaled)
        /\ ~(sorted[Len(sorted)].timestamp - sorted[1].timestamp > window_minutes * 60)

\* The three `continue` tests of the loop body, on one group.
Admitted(tagged_alerts, window_minutes, min_alerts, threshold) ==
    LET sorted == SortByTimestamp(tagged_alerts)
        start_time == sorted[1].timestamp
        end_time == sorted[Len(sorted)].timestamp
    IN  /\ ~(Len(tagged_alerts) < min_alerts)
        /\ ~(~threshold.isNone /\ Scale * Len(tagged_alerts) <= threshold.scaled)
        /\ ~(end_time - start_time > window_minutes * 60)

RECURSIVE AdmittedGroups(_, _, _, _)

\* Mutant of AdmittedGroups: `break` where the code has `continue`.
AdmittedGroupsBreak(groups, window_minutes, min_alerts, threshold) ==
    IF groups = <<>> THEN <<>>
    ELSE LET g == Head(groups)
         IN  IF Admitted(g.alerts, window_minutes, min_alerts, threshold)
             THEN <<[tag |-> g.tag, alerts |-> SortByTimestamp(g.alerts)]>>
                      \o AdmittedGroups(Tail(groups), window_minutes, min_alerts, threshold)
             ELSE <<>>

\* The groups that reach Incident(...), in dict order, each sorted in place.
AdmittedGroups(groups, window_minutes, min_alerts, threshold) ==
    IF groups = <<>> THEN <<>>
    ELSE LET rest == AdmittedGroups(Tail(groups), window_minutes, min_alerts, threshold)
             g == Head(groups)
         IN  IF Admitted(g.alerts, window_minutes, min_alerts, threshold)
             THEN <<[tag |-> g.tag, alerts |-> SortByTimestamp(g.alerts)]>> \o rest
             ELSE rest

\* _make_incident_id(tag): stamp is [now, hex], the UTC second read from the
\* clock and uuid4().hex[:4].
MakeIncidentId(tag, stamp) == <<tag, stamp.now, stamp.hex>>

\* Incident(id=..., start_time=..., ...)
MakeIncident(tag, tagged_alerts, stamp) ==
    [id                   |-> MakeIncidentId(tag, stamp),
     start_time           |-> tagged_alerts[1].timestamp,
     end_time             |-> tagged_alerts[Len(tagged_alerts)].timestamp,
     severity             |-> "critical",
     status               |-> "open",
     related_alert_ids    |-> [i \in 1..Len(tagged_alerts) |-> tagged_alerts[i].id],
     summary              |-> <<SummaryPrefix, tag>>,
     suspected_root_cause |-> NoneVal,
     impact_scope         |-> "network",
     owner                |-> NoneVal,
     created_by           |-> "correlator",
     tenant_id            |-> tagged_alerts[1].tenant_id]

BuildIncidents(admitted, stamps) ==
    [i \in 1..Len(admitted) |-> MakeIncident(admitted[i].tag, admitted[i].alerts, stamps[i])]

\* session.add(incident) for each, then session.commit(): Incident.id is the
\* primary key, so the INSERT of an id the table (or the batch) already holds
\* fails and commit raises IntegrityError with nothing inserted.
CommitRaises(table, new) ==
    \/ \E i \in 1..Len(new) : \E j \in 1..Len(table) : new[i].id = table[j].id
    \/ \E i, j \in 1..Len(new) : i < j /\ new[i].id = new[j].id

(***************************************************************************)
(* correlate_alerts(session, window_minutes, min_alerts, alert_ids)        *)
(***************************************************************************)
Idle ==
    [called         |-> FALSE,
     window_minutes |-> 0,
     min_alerts     |-> 0,
     alert_ids      |-> NoIds,
     alerts         |-> <<>>,
     alerts_by_tag  |-> <<>>,
     threshold      |-> NoThreshold,
     built          |-> <<>>,
     returned       |-> <<>>,
     error          |-> NoneVal]

\* The groups that reach Incident(...) in this call.
AdmittedOf(store, window_minutes, min_alerts, alert_ids) ==
    LET grouped == GroupAlerts(QueryAlerts(store, alert_ids))
    IN  IF grouped.error # NoneVal THEN <<>>
        ELSE AdmittedGroups(grouped.groups, window_minutes, min_alerts,
                            NoiseThreshold(TagCounts(grouped.groups)))

\* The frame of a call as it enters the function body.
Entered(queried, window_minutes, min_alerts, alert_ids) ==
    [Idle EXCEPT !.called = TRUE,
                 !.window_minutes = window_minutes,
                 !.min_alerts = min_alerts,
                 !.alert_ids = alert_ids,
                 !.alerts = queried]

\* Lines 60-104: grouping, threshold, selection, add and commit. The call
\* ends by `return incidents` or by an exception (error # NoneVal, nothing
\* returned).
FrameBody(queried, table, window_minutes, min_alerts, alert_ids, stamps) ==
    LET grouped == GroupAlerts(queried)
        threshold == NoiseThreshold(TagCounts(grouped.groups))
        admitted == AdmittedGroups(grouped.groups, window_minutes, min_alerts, threshold)
        new == BuildIncidents(admitted, stamps)
        base == Entered(queried, window_minutes, min_alerts, alert_ids)
    IN  IF grouped.error # NoneVal THEN [base EXCEPT !.error = grouped.error]
        ELSE IF CommitRaises(table, new)
             THEN [base EXCEPT !.alerts_by_tag = grouped.groups,
                               !.threshold = threshold,
                               !.built = new,
                               !.error = "IntegrityError"]
        ELSE [base EXCEPT !.alerts_by_tag = grouped.groups,
                          !.threshold = threshold,
                          !.built = new,
                          !.returned = new]

\* Mutant of Frame: alerts[0] is read before the emptiness test.
FrameReadsFirstAlert(store, table, window_minutes, min_alerts, alert_ids, stamps) ==
    LET queried == QueryAlerts(store, alert_ids)
    IN  IF queried = <<>>
        THEN [Entered(queried, window_minutes, min_alerts, alert_ids)
                 EXCEPT !.error = "IndexError"]
        ELSE FrameBody(queried, table, window_minutes, min_alerts, alert_ids, stamps)

\* Lines 53-58, then the body: `if not alerts: return []`.
Frame(store, table, window_minutes, min_alerts, alert_ids, stamps) ==
    LET queried == QueryAlerts(store, alert_ids)
    IN  IF queried = <<>>
        THEN Entered(queried, window_minutes, min_alerts, alert_ids)
        ELSE FrameBody(queried, table, window_minutes, min_alerts, alert_ids, stamps)

CorrelateAlerts(window_minutes, min_alerts, alert_ids, stamps) ==
    LET frame == Frame(alerts, incidents, window_minutes, min_alerts, alert_ids, stamps)
    IN  /\ Len(incidents) + Len(frame.returned) <= MaxIncidents
        /\ run' = frame
        /\ incidents' = incidents \o frame.returned
        /\ UNCHANGED <<alerts, source, calc>>

(***************************************************************************)
(* Writers of the alert table                                              *)
(***************************************************************************)
\* Alert(timestamp=..., tags=..., tenant_id=...): the id defaults to a fresh
\* uuid4, here the row number.
NewAlert(id, timestamp, tags, tenant_id) ==
    [id |-> id, timestamp |-> timestamp, tags |-> tags, tenant_id |-> tenant_id]

\* db.add(model) for each row, then db.commit()
InsertAlerts(rows) ==
    /\ alerts' = alerts \o rows
    /\ run' = Idle
    /\ UNCHANGED <<incidents, source, calc>>

\* POST /reset
ResetData ==
    /\ alerts # <<>>
    /\ alerts' = <<>>
    /\ incidents' = <<>>
    /\ run' = Idle
    /\ UNCHANGED <<source, calc>>

(***************************************************************************)
(* Inputs                                                                  *)
(***************************************************************************)
Sources == {"volume", "tags", "times", "test_creates_incident", "test_noise_filter"}

VolumeTags == {"a", "b", "c"}

TagsChoices ==
    {TagsNull, TagsDict({}), TagsDict({<<"region", "emea">>}),
     IncidentTags("a"), IncidentTags("unknown")}

TimeChoices == {0, 60, 61}

TenantChoices == {NoneVal, "tenant-a"}

\* uuid4().hex[:4]: a draw may repeat an earlier one or not.
HexChoices == IF source = "test_creates_incident" THEN {"a7d5", "03fe"} ELSE {"a7d5"}

\* datetime.now(timezone.utc), to the second
Clock == {0}

Stamps == [now : Clock, hex : HexChoices]

\* test_correlate_alerts_creates_incident: range(12), minutes=i % 3
CreatesIncidentCount == 12

\* test_correlate_alerts_percentile_noise_filter: add_alerts(tag, count)
LowCount == 4

MidCount == 10

MidhCount == 12

HighCount == 30

DefaultWindowMinutes == 15

DefaultMinAlerts == 10

Windows ==
    CASE source = "volume" -> {1}
      [] source \in {"tags", "times"} -> {0, 1}
      [] OTHER -> {1, DefaultWindowMinutes}

MinAlerts ==
    CASE source = "volume" -> 1..MaxMinAlerts
      [] source \in {"tags", "times"} -> {1, 2}
      [] OTHER -> {1, DefaultMinAlerts}

\* alert_ids: omitted, empty, or the ids of the rows inserted last (as
\* POST /generate passes them).
AlertIdChoices ==
    IF source = "times"
    THEN {NoIds, IdList(<<>>)}
            \cup {IdList([i \in 1..(Len(alerts) - k) |-> k + i]) : k \in 1..(Len(alerts) - 1)}
    ELSE {NoIds}

\* Alerts that differ in their tag only.
ImportVolume ==
    /\ source = "volume"
    /\ Len(alerts) < MaxAlerts
    /\ \E tag \in VolumeTags :
           InsertAlerts(<<NewAlert(Len(alerts) + 1, 0, IncidentTags(tag), "tenant-a")>>)

\* Alerts with every shape of the tags column, with and without a tenant.
ImportTags ==
    /\ source = "tags"
    /\ Len(alerts) < MaxFieldAlerts
    /\ \E tags \in TagsChoices, tenant \in TenantChoices :
           InsertAlerts(<<NewAlert(Len(alerts) + 1, 0, tags, tenant)>>)

\* Alerts of one tag that differ in timestamp and tenant.
ImportTimes ==
    /\ source = "times"
    /\ Len(alerts) < MaxFieldAlerts
    /\ \E ts \in TimeChoices, tenant \in TenantChoices :
           InsertAlerts(<<NewAlert(Len(alerts) + 1, ts, IncidentTags("a"), tenant)>>)

\* for i in range(12): Alert(timestamp=now + timedelta(minutes=i % 3), ...)
CreatesIncidentRows ==
    [k \in 1..CreatesIncidentCount |->
        NewAlert(k, ((k - 1) % 3) * 60, IncidentTags("network_degradation"), "tenant-a")]

\* add_alerts(tag, count): Alert(timestamp=now + timedelta(seconds=i), ...)
AddAlerts(first, tag, count) ==
    [k \in 1..count |-> NewAlert(first + k - 1, k - 1, IncidentTags(tag), "tenant-a")]

NoiseFilterRows ==
    AddAlerts(1, "low", LowCount)
        \o AddAlerts(LowCount + 1, "mid", MidCount)
        \o AddAlerts(LowCount + MidCount + 1, "midh", MidhCount)
        \o AddAlerts(LowCount + MidCount + MidhCount + 1, "high", HighCount)

LoadCreatesIncident ==
    /\ source = "test_creates_incident"
    /\ alerts = <<>>
    /\ InsertAlerts(CreatesIncidentRows)

LoadNoiseFilter ==
    /\ source = "test_noise_filter"
    /\ alerts = <<>>
    /\ InsertAlerts(NoiseFilterRows)

Correlate ==
    \E window_minutes \in Windows, min_alerts \in MinAlerts, alert_ids \in AlertIdChoices :
        LET n == Len(AdmittedOf(alerts, window_minutes, min_alerts, alert_ids))
        IN  \E stamps \in [1..n -> Stamps] :
                CorrelateAlerts(window_minutes, min_alerts, alert_ids, stamps)

Init ==
    /\ alerts = <<>>
    /\ incidents = <<>>
    /\ run = Idle
    /\ source \in Sources
    /\ calc = NoCall

Next ==
    \/ ImportVolume
    \/ ImportTags
    \/ ImportTimes
    \/ LoadCreatesIncident
    \/ LoadNoiseFilter
    \/ Correlate
    \/ ResetData

Spec == Init /\ [][Next]_vars

(***************************************************************************)
(* Vocabulary of the properties, defined on the alerts a call queried      *)
(* and not through the operators above                                     *)
(***************************************************************************)
\* The call ended by `return`.
Returned == run.called /\ run.error = NoneVal

\* The correlation tag of an alert: the value under "incident", "unknown"
\* when the map is null, empty or has no such key.
CorrelationTag(a) ==
    IF \E p \in a.tags.items : p[1] = "incident"
    THEN CHOOSE v \in {p[2] : p \in a.tags.items} : <<"incident", v>> \in a.tags.items
    ELSE "unknown"

QueriedTags == {CorrelationTag(run.alerts[i]) : i \in 1..Len(run.alerts)}

\* The queried alerts that carry a tag.
Members(tag) == {a \in Range(run.alerts) : CorrelationTag(a) = tag}

Count(tag) == Cardinality(Members(tag))

Earliest(tag) == CHOOSE t \in {a.timestamp : a \in Members(tag)} :
                     \A a \in Members(tag) : t <= a.timestamp

Latest(tag) == CHOOSE t \in {a.timestamp : a \in Members(tag)} :
                   \A a \in Members(tag) : t >= a.timestamp

Span(tag) == Latest(tag) - Earliest(tag)

FitsWindow(tag) == Span(tag) <= run.window_minutes * 60

ReturnedTags == {run.returned[i].summary[2] : i \in 1..Len(run.returned)}

AlertById(id) == CHOOSE a \in Range(run.alerts) : a.id = id

\* The counts of a set of tags, ascending.
RECURSIVE CountsOf(_)
CountsOf(tags) ==
    IF tags = {} THEN <<>>
    ELSE LET t == CHOOSE t \in tags : \A u \in tags : Count(t) <= Count(u)
         IN  <<Count(t)>> \o CountsOf(tags \ {t})

\* Linear interpolation between order statistics, times Scale:
\* v[floor(k)] + (k - floor(k)) * (v[ceil(k)] - v[floor(k)]), k = (n-1)*pct/100,
\* for an ascending sample v of size >= 2 and 0 < pct < 100.
Interpolated(v, pct) ==
    LET k100 == (Len(v) - 1) * pct
        lo == k100 \div Scale
        hi == IF k100 % Scale = 0 THEN lo ELSE lo + 1
    IN  Scale * v[lo + 1] + (k100 - Scale * lo) * (v[hi + 1] - v[lo + 1])

\* Some two of the tags differ in count.
Unequal(tags) == \E t, u \in tags : Count(t) # Count(u)

\* C1: every incident a call returns has at least min_alerts member alerts
\* and spans at most window_minutes * 60 seconds, by its own start_time and
\* end_time and by the timestamps of the alerts it lists.
C1_MinCountAndWindow ==
    Returned =>
        \A i \in 1..Len(run.returned) :
            LET inc == run.returned[i]
                ids == inc.related_alert_ids
            IN  /\ Len(ids) >= run.min_alerts
                /\ inc.end_time - inc.start_time <= run.window_minutes * 60
                /\ \A j, k \in 1..Len(ids) :
                       AlertById(ids[j]).timestamp - AlertById(ids[k]).timestamp
                           <= run.window_minutes * 60

\* C1 witness: an incident of exactly min_alerts alerts spanning exactly the
\* window is returned, while another call's worth of alerts is present.
C1_Witness ==
    /\ Returned
    /\ run.min_alerts = 2
    /\ run.window_minutes = 1
    /\ \E i \in 1..Len(run.returned) :
           /\ Len(run.returned[i].related_alert_ids) = 2
           /\ run.returned[i].end_time - run.returned[i].start_time = 60

\* The threshold C2 describes: the 25th percentile of the counts of the tags
\* that meet min_alerts, when there are two of them with unequal counts.
SurvivorTags == {t \in QueriedTags : Count(t) >= run.min_alerts}

SurvivorThreshold ==
    IF Cardinality(SurvivorTags) >= 2 /\ Unequal(SurvivorTags)
    THEN [isNone |-> FALSE, scaled |-> Interpolated(CountsOf(SurvivorTags), NoisePct)]
    ELSE NoThreshold

\* What the code computes: the 25th percentile of the counts of all tags.
AllTagsThreshold ==
    IF Cardinality(QueriedTags) >= 2 /\ Unequal(QueriedTags)
    THEN [isNone |-> FALSE, scaled |-> Interpolated(CountsOf(QueriedTags), NoisePct)]
    ELSE NoThreshold

AboveThreshold(tag, threshold) ==
    threshold.isNone \/ Scale * Count(tag) > threshold.scaled

\* C2 as stated: the threshold is the 25th percentile of the counts of the
\* groups that survived the min_count filter, computed only when two such
\* groups with unequal counts exist, and a surviving group (within the
\* window) is discarded exactly when its count is <= that threshold.
C2_ThresholdOverSurvivors ==
    (Returned /\ run.alerts # <<>>) =>
        /\ run.threshold = SurvivorThreshold
        /\ \A t \in SurvivorTags :
               FitsWindow(t) =>
                   (t \notin ReturnedTags <=> ~AboveThreshold(t, SurvivorThreshold))

\* C2 amended: the threshold is the 25th percentile of the counts of all tag
\* groups of the queried alerts, whether or not they meet min_alerts; it is
\* computed only when at least two groups exist with counts not all equal;
\* a group that meets min_alerts (and fits the window) is discarded exactly
\* when its count is <= that threshold.
C2_ThresholdOverAllGroups ==
    (Returned /\ run.alerts # <<>>) =>
        /\ run.threshold = AllTagsThreshold
        /\ \A t \in SurvivorTags :
               FitsWindow(t) =>
                   (t \notin ReturnedTags <=> ~AboveThreshold(t, AllTagsThreshold))

\* C2 witness: groups of 1, 2 and 3 alerts with min_alerts = 2: the
\* threshold over all groups is 1.5 and both survivors are returned, where
\* the threshold over the survivors alone (2.25) would discard the group of 2.
C2_Witness ==
    /\ Returned
    /\ run.min_alerts = 2
    /\ CountsOf(QueriedTags) = <<1, 2, 3>>
    /\ run.threshold = [isNone |-> FALSE, scaled |-> 150]
    /\ SurvivorThreshold.scaled = 225
    /\ Len(run.returned) = 2

\* C3: when every tag group has at least min_alerts alerts and fits the
\* window, and the counts are not all equal, the incidents returned are those
\* of exactly the groups whose count is strictly greater than the 25th
\* percentile of the group counts; for counts [4, 10, 12, 30] with
\* min_alerts = 1 these are the groups of 10, 12 and 30.
C3_AbovePercentileAdmitted ==
    (/\ Returned
     /\ run.alerts # <<>>
     /\ \A t \in QueriedTags : Count(t) >= run.min_alerts /\ FitsWindow(t)
     /\ Unequal(QueriedTags)) =>
        /\ ReturnedTags =
               {t \in QueriedTags :
                    Scale * Count(t) > Interpolated(CountsOf(QueriedTags), NoisePct)}
        /\ Len(run.returned) = Cardinality(ReturnedTags)
        /\ (CountsOf(QueriedTags) = <<4, 10, 12, 30>> /\ run.min_alerts = 1) =>
               /\ Interpolated(CountsOf(QueriedTags), NoisePct) = 850
               /\ {Count(t) : t \in ReturnedTags} = {10, 12, 30}
               /\ ReturnedTags = {"mid", "midh", "high"}

\* C3 witness: the regression case of the test has run.
C3_Witness ==
    /\ source = "test_noise_filter"
    /\ Returned
    /\ run.min_alerts = 1
    /\ run.window_minutes = DefaultWindowMinutes
    /\ CountsOf(QueriedTags) = <<4, 10, 12, 30>>
    /\ Len(run.returned) = 3

\* The call got as far as grouping its alerts (it returned, or commit raised).
Grouped == run.called /\ run.alerts # <<>> /\ run.error \in {NoneVal, "IntegrityError"}

\* The places <<k, j>> of alerts_by_tag that hold a given alert.
PlacesOf(a) ==
    {<<k, j>> \in (1..Len(run.alerts_by_tag)) \X (1..Len(run.alerts)) :
        /\ j <= Len(run.alerts_by_tag[k].alerts)
        /\ run.alerts_by_tag[k].alerts[j] = a}

\* C4: grouping is a total partition of the queried alerts by correlation
\* tag: every queried alert is at exactly one place of exactly one group, a
\* group holds nothing but queried alerts of its own tag, and no two groups
\* have the same tag.
C4_GroupingIsPartition ==
    Grouped =>
        /\ \A a \in Range(run.alerts) : Cardinality(PlacesOf(a)) = 1
        /\ \A k \in 1..Len(run.alerts_by_tag) :
               /\ run.alerts_by_tag[k].alerts # <<>>
               /\ \A a \in Range(run.alerts_by_tag[k].alerts) :
                      /\ a \in Range(run.alerts)
                      /\ CorrelationTag(a) = run.alerts_by_tag[k].tag
        /\ \A k, l \in 1..Len(run.alerts_by_tag) :
               k # l => run.alerts_by_tag[k].tag # run.alerts_by_tag[l].tag

\* C4 witness: six alerts were split into three groups of unequal size.
C4_Witness ==
    /\ Grouped
    /\ Len(run.alerts) = 6
    /\ Len(run.alerts_by_tag) = 3
    /\ Len(run.alerts_by_tag[1].alerts) = 3
    /\ Len(run.alerts_by_tag[2].alerts) = 1

\* C5: when the queried alerts (at least one) all carry one correlation tag,
\* number at least min_alerts and span no more than the window, the call
\* returns exactly one incident, whose summary is
\* "Correlated incident for tag: <tag>".
C5_SingleTagOneIncident ==
    (/\ Returned
     /\ run.alerts # <<>>
     /\ Cardinality(QueriedTags) = 1
     /\ Len(run.alerts) >= run.min_alerts
     /\ \A t \in QueriedTags : FitsWindow(t)) =>
        /\ Len(run.returned) = 1
        /\ \A t \in QueriedTags : run.returned[1].summary = <<SummaryPrefix, t>>

\* C5 witness: the 12 alerts of the test, within 3 minutes, with
\* min_alerts = 10 and window_minutes = 15.
C5_Witness ==
    /\ source = "test_creates_incident"
    /\ Returned
    /\ Len(run.alerts) = 12
    /\ run.min_alerts = DefaultMinAlerts
    /\ run.window_minutes = DefaultWindowMinutes
    /\ Len(run.returned) = 1
    /\ run.returned[1].summary = <<SummaryPrefix, "network_degradation">>

\* C6: every incident built has start_time the earliest and end_time the
\* latest timestamp of its group, lists the group's alert ids in ascending
\* timestamp order, has the tenant of the group's earliest alert (the first
\* one listed), status "open", severity "critical" and no root cause.
C6_IncidentFields ==
    Returned =>
        \A i \in 1..Len(run.returned) :
            LET inc == run.returned[i]
                tag == inc.summary[2]
                ids == inc.related_alert_ids
            IN  /\ tag \in QueriedTags
                /\ inc.start_time = Earliest(tag)
                /\ inc.end_time = Latest(tag)
                /\ Range(ids) = {a.id : a \in Members(tag)}
                /\ Len(ids) = Count(tag)
                /\ \A j, k \in 1..Len(ids) :
                       j < k => AlertById(ids[j]).timestamp <= AlertById(ids[k]).timestamp
                /\ AlertById(ids[1]).timestamp = Earliest(tag)
                /\ inc.tenant_id = AlertById(ids[1]).tenant_id
                /\ inc.status = "open"
                /\ inc.severity = "critical"
                /\ inc.suspected_root_cause = NoneVal

\* C6 witness: an incident over two alerts stored latest first, of different
\* tenants: the ids are listed in timestamp order, not in row order.
C6_Witness ==
    /\ Returned
    /\ Len(run.returned) = 1
    /\ run.returned[1].related_alert_ids = <<2, 1>>
    /\ run.returned[1].start_time < run.returned[1].end_time
    /\ AlertById(1).tenant_id # AlertById(2).tenant_id
    /\ run.returned[1].tenant_id = AlertById(2).tenant_id

\* A group the filters of the code let through: it meets min_alerts, its
\* count is above the threshold over all groups, and it fits the window.
Admissible(tag) ==
    /\ Count(tag) >= run.min_alerts
    /\ AboveThreshold(tag, AllTagsThreshold)
    /\ FitsWindow(tag)

\* C7: a run creates exactly one incident per admissible tag group and none
\* for any other group, never merging or splitting: each returned incident
\* lists exactly the alerts of one tag, and no two returned incidents share a
\* tag or an alert; the incidents returned are the rows the run added to the
\* table.
C7_OneIncidentPerAdmissibleGroup ==
    Returned =>
        /\ ReturnedTags = {t \in QueriedTags : Admissible(t)}
        /\ Len(run.returned) = Cardinality(ReturnedTags)
        /\ Len(incidents) >= Len(run.returned)
        /\ SubSeq(incidents, Len(incidents) - Len(run.returned) + 1, Len(incidents))
               = run.returned
        /\ \A i \in 1..Len(run.returned) :
               Range(run.returned[i].related_alert_ids)
                   = {a.id : a \in Members(run.returned[i].summary[2])}
        /\ \A i, j \in 1..Len(run.returned) :
               i # j =>
                   /\ run.returned[i].summary[2] # run.returned[j].summary[2]
                   /\ Range(run.returned[i].related_alert_ids)
                          \cap Range(run.returned[j].related_alert_ids) = {}

\* C7 witness: of three groups, two were admissible and became incidents.
C7_Witness ==
    /\ Returned
    /\ Cardinality(QueriedTags) = 3
    /\ Len(run.returned) = 2
    /\ \E t \in QueriedTags : ~Admissible(t)
    /\ \E i \in 1..2 : Len(run.returned[i].related_alert_ids) >= 2

\* C8: when all tag groups have the same count, no noise threshold is
\* applied: every group that meets min_alerts and fits the window becomes an
\* incident.
C8_EqualCountsNoThreshold ==
    (Returned /\ run.alerts # <<>> /\ ~Unequal(QueriedTags)) =>
        /\ run.threshold.isNone
        /\ ReturnedTags =
               {t \in QueriedTags : Count(t) >= run.min_alerts /\ FitsWindow(t)}
        /\ Len(run.returned) = Cardinality(ReturnedTags)

\* C8 witness: three groups of two alerts each, all three returned.
C8_Witness ==
    /\ Returned
    /\ Cardinality(QueriedTags) = 3
    /\ \A t \in QueriedTags : Count(t) = 2
    /\ run.min_alerts = 2
    /\ Len(run.returned) = 3

\* C9: a call whose query yields no alerts returns the empty list, raises
\* nothing, and leaves the incident table as it was.
C9_NoAlertsNoIncidents ==
    [][(run'.called /\ run'.alerts = <<>>) =>
           /\ run'.returned = <<>>
           /\ run'.error = NoneVal
           /\ incidents' = incidents]_vars

\* C9 witness: a call has run on an empty alert table.
C9_Witness ==
    /\ run.called
    /\ alerts = <<>>
    /\ run.alerts = <<>>
    /\ run.returned = <<>>

\* An alert whose tags map is null, empty or without the "incident" key.
Untagged(a) == a.tags.isNone \/ ~(\E p \in a.tags.items : p[1] = "incident")

\* C10: an alert whose tags map is absent, empty or lacks "incident" is
\* grouped under "unknown", and neither it nor a missing tenant id makes the
\* call raise: the one exception a call ends with is the IntegrityError of
\* commit, raised on an incident id the table already holds.
C10_MissingTagIsUnknown ==
    run.called =>
        /\ run.error \in {NoneVal, "IntegrityError"}
        /\ run.error = "IntegrityError" =>
               \E j \in 1..Len(incidents) :
                   \E k \in 1..Len(run.alerts_by_tag) :
                       incidents[j].id[1] = run.alerts_by_tag[k].tag
        /\ \A a \in Range(run.alerts) :
               Untagged(a) =>
                   \E k \in 1..Len(run.alerts_by_tag) :
                       /\ run.alerts_by_tag[k].tag = "unknown"
                       /\ a \in Range(run.alerts_by_tag[k].alerts)

\* C10 witness: a call over an alert with null tags and no tenant and one
\* with a map that lacks the key returned the incident of tag "unknown".
C10_Witness ==
    /\ Returned
    /\ Len(run.alerts) = 2
    /\ run.alerts[1].tags = TagsNull
    /\ run.alerts[1].tenant_id = NoneVal
    /\ run.alerts[2].tags = TagsDict({<<"region", "emea">>})
    /\ Len(run.returned) = 1
    /\ run.returned[1].summary = <<SummaryPrefix, "unknown">>
    /\ run.returned[1].tenant_id = NoneVal

\* The rows the incident table held when the last call began.
TableBefore ==
    IF run.error = NoneVal
    THEN SubSeq(incidents, 1, Len(incidents) - Len(run.returned))
    ELSE incidents

\* C11: incident ids are unique: over any sequence of runs, repeated runs
\* over one tag within one UTC second included, no incident a run creates has
\* the id of another incident created by that run or by an earlier one.
C11_IncidentIdsUnique ==
    run.called =>
        LET created == TableBefore \o run.built
        IN  \A i, j \in 1..Len(created) : i # j => created[i].id # created[j].id

\* What the primary key of the table does guarantee: no two stored rows
\* share an id (the run that built the duplicate raised and stored nothing).
StoredIdsUnique ==
    \A i, j \in 1..Len(incidents) : i # j => incidents[i].id # incidents[j].id

(***************************************************************************)
(* _percentile as a function of its arguments                              *)
(***************************************************************************)
MaxSample == 3

MaxValue == 3

\* The samples: every list of at most MaxSample counts, in every order.
Samples == UNION {[1..n -> 0..MaxValue] : n \in 0..MaxSample}

\* pct below, at, between and above the ends of the scale.
PctChoices == {-10, 0, 10, 25, 30, 50, 75, 90, 100, 110}

\* The frame on entry: values is the caller's list, given what it held
\* when the call was made.
PercentileArgs(values, pct) ==
    [fn |-> "_percentile", given |-> values, values |-> values, pct |-> pct,
     values_sorted |-> <<>>, returned |-> FALSE, result |-> NoneVal]

\* Mutant of PercentileCall: values.sort() in place of sorted(values).
PercentileCallSortsInPlace(frame) ==
    [frame EXCEPT !.values = Sorted(frame.values),
                  !.values_sorted = Sorted(frame.values),
                  !.returned = TRUE,
                  !.result = PercentileFloat(frame.values, frame.pct)]

\* The call: sorted(values) builds a new list and leaves the caller's alone.
PercentileCall(frame) ==
    [frame EXCEPT !.values_sorted = Sorted(frame.values),
                  !.returned = TRUE,
                  !.result = PercentileFloat(frame.values, frame.pct)]

CallPercentile ==
    /\ calc.fn = "_percentile"
    /\ ~calc.returned
    /\ calc' = PercentileCall(calc)
    /\ UNCHANGED <<alerts, incidents, run, source>>

InitPercentile ==
    /\ alerts = <<>>
    /\ incidents = <<>>
    /\ run = Idle
    /\ source = "volume"
    /\ calc \in {PercentileArgs(values, pct) : values \in Samples, pct \in PctChoices}

NextPercentile == CallPercentile

SpecPercentile == InitPercentile /\ [][NextPercentile]_vars

PercentileReturned == calc.fn = "_percentile" /\ calc.returned

\* C12: _percentile returns 0.0 for the empty sample, the sole element of a
\* one-element sample whatever pct is, and for two or more elements the
\* minimum when pct <= 0 and the maximum when pct >= 100, in whatever order
\* the sample is given.
C12_PercentileEnds ==
    PercentileReturned =>
        LET v == calc.given
            n == Len(v)
        IN  /\ n = 0 => calc.result = DoubleZero
            /\ n = 1 => calc.result = DoubleOfInt(v[1])
            /\ (n >= 2 /\ calc.pct <= 0) => calc.result = DoubleOfInt(SeqMin(v))
            /\ (n >= 2 /\ calc.pct >= 100) => calc.result = DoubleOfInt(SeqMax(v))

\* A sample of three, neither ascending nor descending, asked above the
\* scale: the maximum, which stands in the middle, came back.
C12_Witness ==
    /\ PercentileReturned
    /\ Len(calc.given) = 3
    /\ calc.pct > 100
    /\ calc.given[1] < calc.given[2]
    /\ calc.given[3] < calc.given[2]
    /\ calc.result = DoubleOfInt(calc.given[2])

\* x <= y, for doubles
DoubleLeq(x, y) ==
    LET e == Min2(x.e, y.e)
    IN  ~BigLess(Shifted(y, e), Shifted(x, e))

\* A call with two or more elements and pct strictly inside the scale.
Interior ==
    /\ PercentileReturned
    /\ Len(calc.given) >= 2
    /\ calc.pct > 0
    /\ calc.pct < 100

IsAscending(v) == \A i \in 1..(Len(v) - 1) : v[i] <= v[i + 1]

Occurrences(v, x) == Cardinality({i \in 1..Len(v) : v[i] = x})

SameElements(v, w) ==
    /\ Len(v) = Len(w)
    /\ \A x \in Range(v) \cup Range(w) : Occurrences(v, x) = Occurrences(w, x)

\* In exact arithmetic the expression of the code,
\* v[f] * (c - k) + v[c] * (k - f), is the interpolation
\* v[floor(k)] + (k - floor(k)) * (v[ceil(k)] - v[floor(k)]).
InterpolationExact ==
    Interior => Percentile(calc.given, calc.pct)
                    = Interpolated(Sorted(calc.given), calc.pct)

\* At the percentile correlate_alerts asks for no float operation rounds:
\* the float returned is the exact value.
ExactAtNoisePct ==
    (PercentileReturned /\ calc.pct = NoisePct) =>
        DoubleMulInt(Scale, calc.result)
            = DoubleOfInt(Percentile(calc.given, calc.pct))

\* The sorted copy is the ascending arrangement of the sample, and the
\* list passed in is left as it was.
SortedCopyLeavesInput ==
    PercentileReturned =>
        /\ IsAscending(calc.values_sorted)
        /\ SameElements(calc.values_sorted, calc.given)
        /\ calc.values = calc.given

\* C13: for 0 < pct < 100 and two or more elements, _percentile sorts a copy
\* v of the sample ascending, takes k = (n-1)*pct/100 and returns the
\* interpolation v[floor(k)] + (k - floor(k)) * (v[ceil(k)] - v[floor(k)]):
\* a value from v[floor(k)] to v[ceil(k)], equal to v[k] when k is an
\* integer, never below the minimum nor above the maximum of the sample;
\* the list passed in is not modified.
C13_InterpolatedWithinRange ==
    Interior =>
        LET v == calc.values_sorted
            k100 == (Len(v) - 1) * calc.pct
            lo == k100 \div Scale
            hi == IF k100 % Scale = 0 THEN lo ELSE lo + 1
        IN  /\ IsAscending(v)
            /\ SameElements(v, calc.given)
            /\ DoubleLeq(DoubleOfInt(v[lo + 1]), calc.result)
            /\ DoubleLeq(calc.result, DoubleOfInt(v[hi + 1]))
            /\ k100 % Scale = 0 => calc.result = DoubleOfInt(v[lo + 1])
            /\ DoubleLeq(DoubleOfInt(SeqMin(calc.given)), calc.result)
            /\ DoubleLeq(calc.result, DoubleOfInt(SeqMax(calc.given)))
            /\ calc.values = calc.given

(***************************************************************************)
(* baseline_rca (src/teleops/llm/rca.py)                                   *)
(*                                                                         *)
(* A str that is searched is the sequence of its characters; a str that is *)
(* only passed on (a hypothesis, an evidence text) is kept whole.  A float *)
(* literal of the rule table is its number of hundredths.  An alert is a   *)
(* dict: a function from the keys it has to their values.  generated_at    *)
(* is the reading of the clock, of which isoformat() is a one-to-one       *)
(* rendering.                                                              *)
(***************************************************************************)
BASELINE_RULES == <<
    [patterns |-> <<
         <<"d", "n", "s">>,
         <<"s", "e", "r", "v", "f", "a", "i", "l">>,
         <<"n", "x", "_", "d", "o", "m", "a", "i", "n">>,
         <<"r", "e", "s", "o", "l", "v", "e", "r">>>>,
     hypothesis |-> "authoritative DNS cluster outage in region-east",
     confidence |-> 60,
     evidence |->
         "DNS-related alerts: servfail spikes, NXDOMAIN increases, resolver timeouts"],
    [patterns |-> <<
         <<"b", "g", "p">>,
         <<"r", "o", "u", "t", "e", "_", "w", "i", "t", "h", "d", "r", "a",
           "w", "a", "l">>,
         <<"s", "e", "s", "s", "i", "o", "n", "_", "f", "l", "a", "p">>,
         <<"a", "s", "6", "5">>,
         <<"p", "e", "e", "r", "i", "n", "g">>>>,
     hypothesis |-> "unstable BGP session with upstream AS causing route flaps",
     confidence |-> 58,
     evidence |->
         "BGP session state changes, route withdrawals, prefix instability"],
    [patterns |-> <<
         <<"f", "i", "b", "e", "r">>,
         <<"o", "p", "t", "i", "c", "a", "l">>,
         <<"d", "w", "d", "m">>,
         <<"l", "o", "s", "s", "_", "o", "f", "_", "s", "i", "g", "n", "a",
           "l">>,
         <<"l", "i", "n", "k", "_", "d", "o", "w", "n">>>>,
     hypothesis |-> "fiber cut on metro ring segment causing optical link failure",
     confidence |-> 65,
     evidence |->
         "Optical NMS alerts: loss of signal, link down events on transport layer"],
    [patterns |-> <<
         <<"c", "o", "n", "t", "r", "o", "l", "_", "p", "l", "a", "n", "e">>,
         <<"c", "p", "u", "_", "s", "p", "i", "k", "e">>,
         <<"f", "r", "e", "e", "z", "e">>,
         <<"h", "a", "n", "g">>,
         <<"r", "o", "u", "t", "e", "r">>>>,
     hypothesis |-> "control plane freeze on core router causing forwarding issues",
     confidence |-> 55,
     evidence |->
         "Router CPU spikes, control plane unresponsive, routing updates stalled"],
    [patterns |-> <<
         <<"d", "d", "o", "s">>,
         <<"s", "y", "n", "_", "f", "l", "o", "o", "d">>,
         <<"t", "r", "a", "f", "f", "i", "c", "_", "s", "p", "i", "k", "e">>,
         <<"s", "c", "r", "u", "b", "b", "i", "n", "g">>,
         <<"v", "o", "l", "u", "m", "e", "t", "r", "i", "c">>>>,
     hypothesis |-> "volumetric DDoS attack targeting edge infrastructure",
     confidence |-> 70,
     evidence |->
         "Security monitor alerts: traffic spike, SYN flood indicators, scrubbing triggered"],
    [patterns |-> <<
         <<"m", "p", "l", "s">>,
         <<"v", "p", "n">>,
         <<"v", "r", "f">>,
         <<"r", "o", "u", "t", "e", "_", "l", "e", "a", "k">>,
         <<"l", "3", "v", "p", "n">>>>,
     hypothesis |-> "VRF misconfiguration causing MPLS/L3VPN route leak",
     confidence |-> 52,
     evidence |->
         "MPLS alerts: route leak detected, VRF mismatch, unexpected prefix propagation"],
    [patterns |-> <<
         <<"c", "d", "n">>,
         <<"c", "a", "c", "h", "e">>,
         <<"s", "t", "a", "m", "p", "e", "d", "e">>,
         <<"o", "r", "i", "g", "i", "n">>,
         <<"t", "t", "l">>>>,
     hypothesis |-> "CDN cache stampede due to TTL misconfiguration",
     confidence |-> 58,
     evidence |->
         "CDN alerts: cache miss spike, origin latency increase, TTL-related errors"],
    [patterns |-> <<
         <<"f", "i", "r", "e", "w", "a", "l", "l">>,
         <<"b", "l", "o", "c", "k", "e", "d">>,
         <<"p", "o", "l", "i", "c", "y", "_", "v", "i", "o", "l", "a", "t",
           "i", "o", "n">>,
         <<"r", "u", "l", "e">>>>,
     hypothesis |-> "firewall rule misconfiguration blocking critical traffic",
     confidence |-> 62,
     evidence |->
         "Firewall alerts: blocked port events, policy violation logs"],
    [patterns |-> <<
         <<"d", "a", "t", "a", "b", "a", "s", "e">>,
         <<"d", "b">>,
         <<"q", "u", "e", "r", "y", "_", "l", "a", "t", "e", "n", "c", "y">>,
         <<"l", "o", "c", "k", "_", "w", "a", "i", "t", "s">>,
         <<"c", "o", "n", "t", "e", "n", "t", "i", "o", "n">>>>,
     hypothesis |-> "database contention causing latency spike on hosted applications",
     confidence |-> 55,
     evidence |->
         "Database alerts: query latency spikes, lock waits, connection pool exhaustion"],
    [patterns |-> <<
         <<"p", "e", "e", "r", "i", "n", "g">>,
         <<"c", "o", "n", "g", "e", "s", "t", "i", "o", "n">>,
         <<"i", "s", "p">>,
         <<"a", "s", "6", "4">>>>,
     hypothesis |-> "congestion on ISP peering link causing packet loss",
     confidence |-> 57,
     evidence |->
         "Peering alerts: high latency, packet loss on ISP interconnect"],
    [patterns |-> <<
         <<"p", "a", "c", "k", "e", "t", "_", "l", "o", "s", "s">>,
         <<"l", "a", "t", "e", "n", "c", "y">>,
         <<"d", "e", "g", "r", "a", "d", "a", "t", "i", "o", "n">>,
         <<"n", "e", "t", "w", "o", "r", "k">>>>,
     hypothesis |-> "link congestion on core-router-1 causing packet loss",
     confidence |-> 55,
     evidence |->
         "Network alerts: packet_loss/high_latency burst on core-router-1"]>>

\* alerts[:20]
ScanLimit == 20

\* str.lower() on ASCII
LowerOf ==
    [A |-> "a", B |-> "b", C |-> "c", D |-> "d", E |-> "e", F |-> "f", G |-> "g",
     H |-> "h", I |-> "i", J |-> "j", K |-> "k", L |-> "l", M |-> "m", N |-> "n",
     O |-> "o", P |-> "p", Q |-> "q", R |-> "r", S |-> "s", T |-> "t", U |-> "u",
     V |-> "v", W |-> "w", X |-> "x", Y |-> "y", Z |-> "z"]

Lower(ch) == IF ch \in DOMAIN LowerOf THEN LowerOf[ch] ELSE ch

LowerStr(s) == [i \in 1..Len(s) |-> Lower(s[i])]

\* pattern in text
Contains(text, pattern) ==
    \E i \in 1..(Len(text) - Len(pattern) + 1) :
        \A j \in 1..Len(pattern) : text[i + j - 1] = pattern[j]

\* alert.get(key, '')
AlertGet(alert, key) == IF key \in DOMAIN alert THEN alert[key] ELSE <<>>

\* f" {alert.get('alert_type', '')} {alert.get('message', '')}".lower()
AlertText(alert) ==
    LowerStr(<<" ">> \o AlertGet(alert, "alert_type")
             \o <<" ">> \o AlertGet(alert, "message"))

RECURSIVE AppendAlerts(_, _)
AppendAlerts(search_text, scanned) ==
    IF scanned = <<>> THEN search_text
    ELSE AppendAlerts(search_text \o AlertText(Head(scanned)), Tail(scanned))

\* The argument alerts: None, or a list of alerts.
NoAlertList == [isNone |-> TRUE, list |-> <<>>]

AlertList(list) == [isNone |-> FALSE, list |-> list]

\* Mutant of SearchText: the summary is searched as it was written.
SearchTextSummaryAsGiven(incident_summary, alert_list) ==
    IF alert_list.isNone \/ alert_list.list = <<>>
    THEN incident_summary
    ELSE AppendAlerts(incident_summary,
                      SubSeq(alert_list.list, 1, Min2(ScanLimit, Len(alert_list.list))))

\* Mutant of SearchText: every alert is scanned.
SearchTextUncapped(incident_summary, alert_list) ==
    IF alert_list.isNone \/ alert_list.list = <<>>
    THEN LowerStr(incident_summary)
    ELSE AppendAlerts(LowerStr(incident_summary), alert_list.list)

SearchText(incident_summary, alert_list) ==
    IF alert_list.isNone \/ alert_list.list = <<>>
    THEN LowerStr(incident_summary)
    ELSE AppendAlerts(LowerStr(incident_summary),
                      SubSeq(alert_list.list, 1, Min2(ScanLimit, Len(alert_list.list))))

\* sum(1 for pattern in rule["patterns"] if pattern in search_text)
CurrentMatches(rule, search_text) ==
    Cardinality({p \in 1..Len(rule.patterns) :
                     Contains(search_text, rule.patterns[p])})

\* Mutant of RuleLoop: >= in place of >, the last of the best rules wins.
RECURSIVE RuleLoopKeepsLast(_, _, _, _)
RuleLoopKeepsLast(i, search_text, matched_rule, match_count) ==
    IF i > Len(BASELINE_RULES)
    THEN [matched_rule |-> matched_rule, match_count |-> match_count]
    ELSE LET current_matches == CurrentMatches(BASELINE_RULES[i], search_text)
         IN  IF current_matches >= match_count /\ current_matches > 0
             THEN RuleLoopKeepsLast(i + 1, search_text, i, current_matches)
             ELSE RuleLoopKeepsLast(i + 1, search_text, matched_rule, match_count)

\* for rule in BASELINE_RULES, from the i-th rule on; matched_rule is the
\* place of the rule in the table, 0 for None.
RECURSIVE RuleLoop(_, _, _, _)
RuleLoop(i, search_text, matched_rule, match_count) ==
    IF i > Len(BASELINE_RULES)
    THEN [matched_rule |-> matched_rule, match_count |-> match_count]
    ELSE LET current_matches == CurrentMatches(BASELINE_RULES[i], search_text)
         IN  IF current_matches > match_count
             THEN RuleLoop(i + 1, search_text, i, current_matches)
             ELSE RuleLoop(i + 1, search_text, matched_rule, match_count)

\* Mutant of BaselineRca: the evidence carries the time of the call.
BaselineRcaStampsEvidence(incident_summary, alert_list, now) ==
    LET loop == RuleLoop(1, SearchText(incident_summary, alert_list), 0, 0)
        matched_rule == IF loop.matched_rule = 0 THEN Len(BASELINE_RULES)
                        ELSE loop.matched_rule
        rule == BASELINE_RULES[matched_rule]
    IN  [matched_rule |-> matched_rule,
         result |->
             [incident_summary |-> incident_summary,
              hypotheses |-> <<rule.hypothesis>>,
              confidence_scores |-> {<<rule.hypothesis, rule.confidence>>},
              evidence |-> [alerts |-> rule.evidence,
                            match_count |-> loop.match_count + now],
              generated_at |-> now,
              model |-> "baseline-rules"]]

\* baseline_rca called when the clock reads now: the rule it settled on
\* (its place in the table) and the dict it returns.
BaselineRca(incident_summary, alert_list, now) ==
    LET loop == RuleLoop(1, SearchText(incident_summary, alert_list), 0, 0)
        matched_rule == IF loop.matched_rule = 0 THEN Len(BASELINE_RULES)
                        ELSE loop.matched_rule
        rule == BASELINE_RULES[matched_rule]
    IN  [matched_rule |-> matched_rule,
         result |->
             [incident_summary |-> incident_summary,
              hypotheses |-> <<rule.hypothesis>>,
              confidence_scores |-> {<<rule.hypothesis, rule.confidence>>},
              evidence |-> [alerts |-> rule.evidence,
                            match_count |-> loop.match_count],
              generated_at |-> now,
              model |-> "baseline-rules"]]

(***************************************************************************)
(* baseline_rca as a function of its arguments and of the clock            *)
(***************************************************************************)
MaxFollowers == 2

SummaryPlain ==
    <<"s", "u", "m", "m", "a", "r", "y">>

SummaryDns ==
    <<"D", "N", "S", " ", "s", "e", "r", "v", "e", "r", "s", " ", "a", "r",
      "e", " ", "r", "e", "p", "o", "r", "t", "i", "n", "g", " ", "f",
      "a", "i", "l", "u", "r", "e", "s">>

SummaryPeering ==
    <<"p", "e", "e", "r", "i", "n", "g", " ", "l", "i", "n", "k">>

SummaryGeneric ==
    <<"g", "e", "n", "e", "r", "i", "c", " ", "n", "e", "t", "w", "o", "r",
      "k", " ", "i", "s", "s", "u", "e">>

SummaryDnsBgp ==
    <<"d", "n", "s", " ", "o", "n", " ", "b", "g", "p", " ", "p", "e", "e",
      "r", "i", "n", "g">>

BgpAlertType ==
    <<"b", "g", "p", "_", "s", "e", "s", "s", "i", "o", "n", "_", "f", "l",
      "a", "p">>

BgpMessage ==
    <<"B", "G", "P", " ", "r", "o", "u", "t", "e", " ", "w", "i", "t", "h",
      "d", "r", "a", "w", "a", "l", " ", "d", "e", "t", "e", "c", "t",
      "e", "d">>

QuietAlertType ==
    <<"c", "p", "u">>

Summaries ==
    {<<>>, SummaryPlain, SummaryDns, SummaryPeering, SummaryGeneric, SummaryDnsBgp}

QuietHost ==
    <<"d", "n", "s", "-", "r", "e", "s", "o", "l", "v", "e", "r", "-", "1">>

\* An alert without a message, whose host is named after keywords, and the
\* alert of the BGP test.
QuietAlert == [alert_type |-> QuietAlertType, host |-> QuietHost]

BgpAlert == [alert_type |-> BgpAlertType, message |-> BgpMessage]

AlertChoices == {QuietAlert, BgpAlert}

\* The lists: none, or a run of quiet alerts that ends before, at or one
\* short of the scan limit, followed by up to MaxFollowers alerts.
QuietCounts == {0, ScanLimit - 1, ScanLimit}

Followers == UNION {[1..n -> AlertChoices] : n \in 0..MaxFollowers}

AlertLists ==
    {NoAlertList}
    \cup {AlertList([i \in 1..n |-> QuietAlert] \o tail) :
              n \in QuietCounts, tail \in Followers}

\* The clock between two calls: it may read the same or have advanced.
ClockSteps == {0, 1}

RcaArgs(incident_summary, alert_list) ==
    [fn |-> "baseline_rca", incident_summary |-> incident_summary,
     alerts |-> alert_list, clock |-> 0, calls |-> 0, matched_rule |-> 0,
     result |-> NoneVal, previous |-> NoneVal]

\* What is kept of a call when the next one is made.
Snapshot(frame) ==
    [alerts |-> frame.alerts, matched_rule |-> frame.matched_rule,
     result |-> frame.result]

RcaCall(frame, alert_list, now) ==
    LET out == BaselineRca(frame.incident_summary, alert_list, now)
    IN  [frame EXCEPT !.alerts = alert_list,
                      !.clock = now,
                      !.calls = @ + 1,
                      !.matched_rule = out.matched_rule,
                      !.result = out.result,
                      !.previous = IF frame.calls = 0 THEN NoneVal
                                   ELSE Snapshot(frame)]

\* The alerts of the list that are scanned.
Scanned(alert_list) ==
    IF alert_list.isNone THEN <<>>
    ELSE SubSeq(alert_list.list, 1, Min2(ScanLimit, Len(alert_list.list)))

\* The first call.
CallBaselineRca ==
    /\ calc.fn = "baseline_rca"
    /\ calc.calls = 0
    /\ \E step \in ClockSteps : calc' = RcaCall(calc, calc.alerts, calc.clock + step)
    /\ UNCHANGED <<alerts, incidents, run, source>>

\* A second call with the same arguments.
CallAgain ==
    /\ calc.fn = "baseline_rca"
    /\ calc.calls = 1
    /\ \E step \in ClockSteps : calc' = RcaCall(calc, calc.alerts, calc.clock + step)
    /\ UNCHANGED <<alerts, incidents, run, source>>

\* A second call with the same summary and another list, which differs
\* from the first from its ScanLimit-th alert on, if at all before.
CallWithOtherAlerts ==
    /\ calc.fn = "baseline_rca"
    /\ calc.calls = 1
    /\ ~calc.alerts.isNone
    /\ Len(calc.alerts.list) >= ScanLimit - 1
    /\ \E other \in AlertLists, step \in ClockSteps :
           /\ ~other.isNone
           /\ other # calc.alerts
           /\ Len(other.list) >= ScanLimit - 1
           /\ SubSeq(other.list, 1, ScanLimit - 1)
                  = SubSeq(calc.alerts.list, 1, ScanLimit - 1)
           /\ calc' = RcaCall(calc, other, calc.clock + step)
    /\ UNCHANGED <<alerts, incidents, run, source>>

InitRca ==
    /\ alerts = <<>>
    /\ incidents = <<>>
    /\ run = Idle
    /\ source = "volume"
    /\ calc \in {RcaArgs(incident_summary, list) :
                     incident_summary \in Summaries, list \in AlertLists}

NextRca ==
    \/ CallBaselineRca
    \/ CallAgain
    \/ CallWithOtherAlerts

SpecRca == InitRca /\ [][NextRca]_vars

(***************************************************************************)
(* Properties of baseline_rca                                              *)
(***************************************************************************)
RcaReturned == calc.fn = "baseline_rca" /\ calc.calls > 0

\* " <alert_type> <message>" for each alert of the list, in order.
RECURSIVE Joined(_)
Joined(list) ==
    IF list = <<>> THEN <<>>
    ELSE <<" ">> \o AlertGet(Head(list), "alert_type")
         \o <<" ">> \o AlertGet(Head(list), "message") \o Joined(Tail(list))

\* The lowercased corpus of a call on summary and alert_list.
CorpusOf(summary, alert_list) ==
    LET text == summary \o Joined(Scanned(alert_list))
    IN  [i \in 1..Len(text) |-> Lower(text[i])]

\* The patterns of the i-th rule that occur in the corpus.
PatternsFound(i, corpus) ==
    {p \in 1..Len(BASELINE_RULES[i].patterns) :
         Contains(corpus, BASELINE_RULES[i].patterns[p])}

Rules == 1..Len(BASELINE_RULES)

\* C14: baseline_rca selects the rule with the highest match count over
\* BASELINE_RULES, the earliest in table order of those that reach it (every
\* rule before the selected one counts strictly less), and when no rule has
\* a match count above zero the last rule of the table; the call returns.
C14_HighestCountEarliestWins ==
    RcaReturned =>
        LET corpus == CorpusOf(calc.incident_summary, calc.alerts)
            count(i) == Cardinality(PatternsFound(i, corpus))
            m == calc.matched_rule
        IN  /\ m \in Rules
            /\ calc.result.hypotheses[1] = BASELINE_RULES[m].hypothesis
            /\ (\E i \in Rules : count(i) > 0) =>
                   /\ \A i \in Rules : count(i) <= count(m)
                   /\ \A i \in Rules : i < m => count(i) < count(m)
            /\ (\A i \in Rules : count(i) = 0) => m = Len(BASELINE_RULES)

\* Two rules tie for the highest count and the earlier one was selected.
C14_Witness ==
    /\ RcaReturned
    /\ LET corpus == CorpusOf(calc.incident_summary, calc.alerts)
           count(i) == Cardinality(PatternsFound(i, corpus))
       IN  \E i, j \in Rules :
               /\ i < j
               /\ count(i) > 0
               /\ count(i) = count(j)
               /\ \A r \in Rules : count(r) <= count(i)
               /\ calc.matched_rule = i

\* C15: every result of baseline_rca has exactly one hypothesis, a
\* confidence_scores map whose only key is that hypothesis, mapped to the
\* confidence of the winning rule, the model tag "baseline-rules", and an
\* evidence match_count equal to the number of patterns of the winning rule
\* that occur as substrings of the lowercased corpus; match_count is 0
\* exactly when no pattern of any rule occurs, and then the rule is the
\* fallback.
C15_ResultShape ==
    RcaReturned =>
        LET corpus == CorpusOf(calc.incident_summary, calc.alerts)
            m == calc.matched_rule
            result == calc.result
        IN  /\ Len(result.hypotheses) = 1
            /\ result.hypotheses[1] = BASELINE_RULES[m].hypothesis
            /\ result.confidence_scores
                   = {<<result.hypotheses[1], BASELINE_RULES[m].confidence>>}
            /\ result.model = "baseline-rules"
            /\ result.evidence.match_count = Cardinality(PatternsFound(m, corpus))
            /\ result.evidence.match_count = 0
                   <=> \A i \in Rules : PatternsFound(i, corpus) = {}
            /\ result.evidence.match_count = 0 => m = Len(BASELINE_RULES)

\* A summary written in capitals and an alert bring two patterns of a rule
\* that is not the fallback.
C15_Witness ==
    /\ RcaReturned
    /\ calc.incident_summary = SummaryDns
    /\ calc.matched_rule < Len(BASELINE_RULES)
    /\ calc.result.evidence.match_count >= 2

\* Two calls have been made, on the same summary and the same alerts.
CalledTwiceOnSame == RcaReturned /\ calc.calls = 2 /\ calc.previous.alerts = calc.alerts

\* A result without its timestamp.
Undated(result) == [result EXCEPT !.generated_at = 0]

CalledTwiceOnSameScanned ==
    /\ RcaReturned
    /\ calc.calls = 2
    /\ Scanned(calc.previous.alerts) = Scanned(calc.alerts)

\* C17: baseline_rca scans only the summary and the alert_type and message
\* of the first 20 alerts: two calls whose summaries and first 20 alerts
\* agree select the same rule with the same match_count, whatever alerts
\* follow the 20th.
C17_OnlyFirstTwentyScanned ==
    CalledTwiceOnSameScanned =>
        /\ calc.matched_rule = calc.previous.matched_rule
        /\ calc.result.hypotheses = calc.previous.result.hypotheses
        /\ calc.result.evidence.match_count
               = calc.previous.result.evidence.match_count

\* Two lists that part after the 20th alert, one of them with the BGP alert
\* in 21st place.
C17_Witness ==
    /\ CalledTwiceOnSameScanned
    /\ calc.alerts # calc.previous.alerts
    /\ Len(calc.alerts.list) > ScanLimit
    /\ calc.alerts.list[ScanLimit + 1] = BgpAlert
    /\ calc.matched_rule = calc.previous.matched_rule

(***************************************************************************)
(* compute_quality_metrics (src/scripts/evaluate.py)                       *)
(*                                                                         *)
(* A score, a confidence or a threshold is a float written with at most    *)
(* three decimals, kept as its number of thousandths (two such floats      *)
(* compare as their thousandths do); so is what round(x, 3) returns, the   *)
(* float nearest to a number of thousandths.  An optional float is         *)
(* [isNone, milli].  The floats in between (a quotient, a mean) are        *)
(* doubles.                                                                *)
(***************************************************************************)
CORRECT_THRESHOLD == 750

WRONG_CONFIDENT_SIM == 500

WRONG_CONFIDENT_CONF == 700

\* round(x, 3)
RoundDigits == 3

Milli == 10 ^ RoundDigits

NoFloat == [isNone |-> TRUE, milli |-> 0]

Float(milli) == [isNone |-> FALSE, milli |-> milli]

EvalSources == {"baseline", "llm"}

\* s.get(f"{source}_score"), s.get(f"{source}_confidence")
ScoreOf(s, src) == IF src = "baseline" THEN s.baseline_score ELSE s.llm_score

ConfOf(s, src) ==
    IF src = "baseline" THEN s.baseline_confidence ELSE s.llm_confidence

\* Mutant of RoundMilli: the decimals after the third are cut off.
RoundMilliTruncates(x) ==
    IF x.e >= 0 THEN NatOfBig(BigShiftLeft(BigTrim(BigMulC(x.m, Milli, 0)), x.e))
    ELSE NatOfBig(BigShiftRight(BigTrim(BigMulC(x.m, Milli, 0)), 0 - x.e))

\* round(x, 3) for a double x >= 0, in thousandths: the integer nearest to
\* x * 1000, the even one of two equally near.
RoundMilli(x) ==
    LET scaled == BigTrim(BigMulC(x.m, Milli, 0))
        s == 0 - x.e
        q == BigShiftRight(scaled, s)
        r == BigTrim(BigSubB(scaled, BigShiftLeft(q, s), 0))
        half == BigShiftLeft(<<1>>, s - 1)
        up == \/ BigLess(half, r)
              \/ ~BigLess(r, half) /\ LimbAt(q, 1) % 2 = 1
    IN  IF x.e >= 0 THEN NatOfBig(BigShiftLeft(scaled, x.e))
        ELSE NatOfBig(q) + (IF up THEN 1 ELSE 0)

\* round(count / total, 3)
RoundedRatio(count, total) == RoundMilli(DoubleDiv(count, total))

\* The exact sum, at the exponent e, of count[v] times the float written
\* v thousandths, over the v of vals.
RECURSIVE SumAt(_, _, _)
SumAt(vals, count, e) ==
    IF vals = {} THEN <<>>
    ELSE LET v == CHOOSE v \in vals : TRUE
         IN  BigAddC(BigTrim(BigMulC(Shifted(DoubleDiv(v, Milli), e), count[v], 0)),
                     SumAt(vals \ {v}, count, e), 0)

\* statistics.mean(confs): the double nearest to the exact mean of the n
\* floats of confs, given by the number of times count[v] each v occurs.
Mean(vals, count, n) ==
    LET e == 0 - 2 * Precision
        s == Precision + 1 + BitLenNat(n)
        d == BigDivSmall(BigShiftLeft(SumAt(vals, count, e), s), n)
    IN  RoundDouble(BigTrim(d.q), e - s, d.rem # 0)

\* round(statistics.mean(confs), 3) if confs else None, confs being the
\* confidences that are not None of the scenarios at the places of chosen.
AvgConfidence(scenarios, src, chosen) ==
    LET having == {i \in chosen : ~ConfOf(scenarios[i], src).isNone}
        vals == {ConfOf(scenarios[i], src).milli : i \in having}
        count == [v \in vals |->
                     Cardinality({i \in having : ConfOf(scenarios[i], src).milli = v})]
    IN  IF having = {} THEN NoFloat
        ELSE Float(RoundMilli(Mean(vals, count, Cardinality(having))))

\* results[source] = None
NoData == [isNone |-> TRUE]

\* The places of the scenarios the source has a score for.
Attempted(scenarios, src) ==
    {i \in 1..Len(scenarios) : ~ScoreOf(scenarios[i], src).isNone}

\* None >= WRONG_CONFIDENT_CONF: a scenario scored below
\* WRONG_CONFIDENT_SIM whose confidence is None raises TypeError.
ComparesNone(scenarios, src) ==
    \E i \in Attempted(scenarios, src) :
        /\ ScoreOf(scenarios[i], src).milli < WRONG_CONFIDENT_SIM
        /\ ConfOf(scenarios[i], src).isNone

\* Mutant of SourceMetrics: a source without a score gets metrics of 0.
SourceMetricsZeroes(scenarios, src) ==
    LET attempted == Attempted(scenarios, src)
        correct == {i \in attempted :
                        ScoreOf(scenarios[i], src).milli >= CORRECT_THRESHOLD}
        incorrect == attempted \ correct
        wrong_confident ==
            {i \in attempted :
                 /\ ScoreOf(scenarios[i], src).milli < WRONG_CONFIDENT_SIM
                 /\ ConfOf(scenarios[i], src).milli >= WRONG_CONFIDENT_CONF}
        ratio(count, total) == IF total = 0 THEN 0 ELSE RoundedRatio(count, total)
    IN  [isNone |-> FALSE,
         precision |-> ratio(Cardinality(correct), Cardinality(attempted)),
         recall |-> ratio(Cardinality(correct), Len(scenarios)),
         wrong_but_confident_rate |->
             ratio(Cardinality(wrong_confident), Cardinality(attempted)),
         wrong_but_confident_count |-> Cardinality(wrong_confident),
         avg_confidence_correct |-> AvgConfidence(scenarios, src, correct),
         avg_confidence_incorrect |-> AvgConfidence(scenarios, src, incorrect),
         total_attempted |-> Cardinality(attempted),
         total_correct |-> Cardinality(correct)]

\* Mutant of SourceMetrics: wrong-but-confident without the score test.
SourceMetricsConfidentOnly(scenarios, src) ==
    LET attempted == Attempted(scenarios, src)
        correct == {i \in attempted :
                        ScoreOf(scenarios[i], src).milli >= CORRECT_THRESHOLD}
        incorrect == attempted \ correct
        wrong_confident ==
            {i \in attempted :
                 ConfOf(scenarios[i], src).milli >= WRONG_CONFIDENT_CONF}
    IN  IF attempted = {} THEN NoData
        ELSE [isNone |-> FALSE,
              precision |-> RoundedRatio(Cardinality(correct), Cardinality(attempted)),
              recall |-> RoundedRatio(Cardinality(correct), Len(scenarios)),
              wrong_but_confident_rate |->
                  RoundedRatio(Cardinality(wrong_confident), Cardinality(attempted)),
              wrong_but_confident_count |-> Cardinality(wrong_confident),
              avg_confidence_correct |-> AvgConfidence(scenarios, src, correct),
              avg_confidence_incorrect |-> AvgConfidence(scenarios, src, incorrect),
              total_attempted |-> Cardinality(attempted),
              total_correct |-> Cardinality(correct)]

\* One turn of the loop over the sources, when it raises nothing.
SourceMetrics(scenarios, src) ==
    LET attempted == Attempted(scenarios, src)
        correct == {i \in attempted :
                        ScoreOf(scenarios[i], src).milli >= CORRECT_THRESHOLD}
        incorrect == {i \in attempted :
                          ScoreOf(scenarios[i], src).milli < CORRECT_THRESHOLD}
        wrong_confident ==
            {i \in attempted :
                 /\ ScoreOf(scenarios[i], src).milli < WRONG_CONFIDENT_SIM
                 /\ ConfOf(scenarios[i], src).milli >= WRONG_CONFIDENT_CONF}
    IN  IF attempted = {} THEN NoData
        ELSE [isNone |-> FALSE,
              precision |-> RoundedRatio(Cardinality(correct), Cardinality(attempted)),
              recall |-> RoundedRatio(Cardinality(correct), Len(scenarios)),
              wrong_but_confident_rate |->
                  RoundedRatio(Cardinality(wrong_confident), Cardinality(attempted)),
              wrong_but_confident_count |-> Cardinality(wrong_confident),
              avg_confidence_correct |-> AvgConfidence(scenarios, src, correct),
              avg_confidence_incorrect |-> AvgConfidence(scenarios, src, incorrect),
              total_attempted |-> Cardinality(attempted),
              total_correct |-> Cardinality(correct)]

\* compute_quality_metrics(scenarios): what it raises, or what it returns.
ComputeQualityMetrics(scenarios) ==
    IF \E src \in EvalSources : ComparesNone(scenarios, src)
    THEN [error |-> "TypeError", results |-> NoneVal]
    ELSE [error |-> NoneVal,
          results |-> [src \in EvalSources |-> SourceMetrics(scenarios, src)]]

(***************************************************************************)
(* compute_quality_metrics as a function of the scenarios run_eval builds  *)
(***************************************************************************)
MaxScenarios == 2

\* An entry of per_scenario: the baseline always has a score and the
\* confidence of a rule; the LLM has neither when llm_rca failed, both when
\* it answered, and a score without a confidence when _get_max_confidence
\* failed or found None after llm_score was set.
Scenario(baseline_score, baseline_confidence, llm_score, llm_confidence) ==
    [baseline_score |-> baseline_score,
     baseline_confidence |-> baseline_confidence,
     llm_score |-> llm_score,
     llm_confidence |-> llm_confidence]

LlmUnavailable == Scenario(Float(900), Float(600), NoFloat, NoFloat)

BaselineWrongConfident == Scenario(Float(300), Float(700), Float(750), Float(900))

BaselineBorderline == Scenario(Float(500), Float(700), Float(300), Float(650))

LlmWrongConfident == Scenario(Float(749), Float(550), Float(200), Float(950))

LlmWrongUnrated == Scenario(Float(900), Float(600), Float(300), NoFloat)

LlmCorrectUnrated == Scenario(Float(300), Float(550), Float(800), NoFloat)

ScenarioChoices ==
    {LlmUnavailable, BaselineWrongConfident, BaselineBorderline,
     LlmWrongConfident, LlmWrongUnrated, LlmCorrectUnrated}

\* A long evaluation: so many runs in which only the baseline answered,
\* and rightly.
LongRun == 2 * Milli

\* The lists: up to MaxScenarios entries, alone or after a long run.
ScenarioLists ==
    {[i \in 1..n |-> LlmUnavailable] \o tail :
         n \in {0, LongRun},
         tail \in UNION {[1..k -> ScenarioChoices] : k \in 0..MaxScenarios}}

MetricsArgs(scenarios) ==
    [fn |-> "compute_quality_metrics", scenarios |-> scenarios,
     returned |-> FALSE, error |-> NoneVal, results |-> NoneVal]

MetricsCall(frame) ==
    LET out == ComputeQualityMetrics(frame.scenarios)
    IN  [frame EXCEPT !.returned = out.error = NoneVal,
                      !.error = out.error,
                      !.results = out.results]

CallComputeQualityMetrics ==
    /\ calc.fn = "compute_quality_metrics"
    /\ ~calc.returned
    /\ calc.error = NoneVal
    /\ calc' = MetricsCall(calc)
    /\ UNCHANGED <<alerts, incidents, run, source>>

InitMetrics ==
    /\ alerts = <<>>
    /\ incidents = <<>>
    /\ run = Idle
    /\ source = "volume"
    /\ calc \in {MetricsArgs(scenarios) : scenarios \in ScenarioLists}

NextMetrics == CallComputeQualityMetrics

SpecMetrics == InitMetrics /\ [][NextMetrics]_vars

(***************************************************************************)
(* Properties of compute_quality_metrics                                   *)
(***************************************************************************)
\* The call has ended, by a return or by an exception.
MetricsEnded ==
    calc.fn = "compute_quality_metrics" /\ (calc.returned \/ calc.error # NoneVal)

MetricsReturned == calc.fn = "compute_quality_metrics" /\ calc.returned

\* The incidents the source attempted: those it has a score for.
Scored(src) ==
    {i \in 1..Len(calc.scenarios) : ~ScoreOf(calc.scenarios[i], src).isNone}

\* Those of them it got right.
Right(src) ==
    {i \in Scored(src) : ScoreOf(calc.scenarios[i], src).milli >= CORRECT_THRESHOLD}

\* The incidents with score < 0.5 and confidence >= 0.7.
WrongButConfident(src) ==
    {i \in Scored(src) :
         /\ ScoreOf(calc.scenarios[i], src).milli < WRONG_CONFIDENT_SIM
         /\ ~ConfOf(calc.scenarios[i], src).isNone
         /\ ConfOf(calc.scenarios[i], src).milli >= WRONG_CONFIDENT_CONF}

\* The sources the call reports metrics for.
Reported == {src \in EvalSources : ~calc.results[src].isNone}

\* The float written milli thousandths is the float count / total.
IsQuotient(milli, count, total) == DoubleDiv(milli, Milli) = DoubleDiv(count, total)

\* milli thousandths is count / total to within half a thousandth.
IsRounded(milli, count, total) ==
    LET diff == milli * total - Milli * count
    IN  2 * (IF diff < 0 THEN 0 - diff ELSE diff) <= total

\* C18 as stated: for each source, precision = (number of attempted
\* incidents with score >= 0.75) / (number of attempted incidents) and
\* recall = that count / (number of all incidents passed in).
C18_PrecisionRecallAreQuotients ==
    MetricsReturned =>
        \A src \in Reported :
            /\ IsQuotient(calc.results[src].precision,
                          Cardinality(Right(src)), Cardinality(Scored(src)))
            /\ IsQuotient(calc.results[src].recall,
                          Cardinality(Right(src)), Len(calc.scenarios))

\* C18: for each source, precision is (number of attempted incidents with
\* score >= 0.75) / (number of attempted incidents) rounded to three
\* decimals, and recall is that count / (number of all incidents passed in)
\* rounded to three decimals; attempted means the score is not None.
C18_PrecisionRecallRounded ==
    MetricsReturned =>
        \A src \in Reported :
            /\ calc.results[src].total_attempted = Cardinality(Scored(src))
            /\ calc.results[src].total_correct = Cardinality(Right(src))
            /\ IsRounded(calc.results[src].precision,
                         Cardinality(Right(src)), Cardinality(Scored(src)))
            /\ IsRounded(calc.results[src].recall,
                         Cardinality(Right(src)), Len(calc.scenarios))

\* A source got some but not all of what it attempted right and its
\* precision is not a whole number of thousandths; a source left incidents
\* unattempted, so that its recall is below its precision.
C18_Witness ==
    /\ MetricsReturned
    /\ \E src \in Reported :
           /\ Right(src) # {}
           /\ Right(src) # Scored(src)
           /\ calc.results[src].precision * Cardinality(Scored(src))
                  # Milli * Cardinality(Right(src))
    /\ \E src \in Reported :
           /\ Cardinality(Scored(src)) < Len(calc.scenarios)
           /\ Right(src) # {}
           /\ calc.results[src].recall < calc.results[src].precision

\* C19: for each source, wrong_but_confident_rate is strictly greater than 0
\* whenever at least one incident has score < 0.5 and confidence >= 0.7, and
\* is 0 when no such incident exists; wrong_but_confident_count is exactly
\* the number of such incidents.
C19_RatePositiveIffWrongConfident ==
    MetricsReturned =>
        \A src \in Reported :
            /\ (WrongButConfident(src) # {}
                    => calc.results[src].wrong_but_confident_rate > 0)
            /\ (WrongButConfident(src) = {}
                    => calc.results[src].wrong_but_confident_rate = 0)
            /\ calc.results[src].wrong_but_confident_count
                   = Cardinality(WrongButConfident(src))

\* The count alone is exact, and the rate is 0 when no such incident exists.
WrongButConfidentCounted ==
    MetricsReturned =>
        \A src \in Reported :
            /\ (WrongButConfident(src) = {}
                    => calc.results[src].wrong_but_confident_rate = 0)
            /\ calc.results[src].wrong_but_confident_count
                   = Cardinality(WrongButConfident(src))

\* A wrong incident without a confidence makes the comparison at line 79
\* raise instead of counting it as not confident.
UnratedWrongRaises ==
    MetricsEnded =>
        (calc.error # NoneVal
            <=> \E src \in EvalSources : \E i \in Scored(src) :
                    /\ ScoreOf(calc.scenarios[i], src).milli < WRONG_CONFIDENT_SIM
                    /\ ConfOf(calc.scenarios[i], src).isNone)

\* C20: on an empty incident list, or on a list in which a source has no
\* scored incident, compute_quality_metrics raises nothing and returns the
\* explicit no-data value None for that source, not metrics of 0 or 1; a
\* source with a scored incident gets metrics, not None.
C20_NoScoreIsNoData ==
    MetricsEnded =>
        /\ \A src \in EvalSources :
               Scored(src) = {} =>
                   /\ calc.error = NoneVal
                   /\ calc.returned
                   /\ calc.results[src] = NoData
        /\ calc.returned =>
               \A src \in EvalSources :
                   Scored(src) # {} => ~calc.results[src].isNone

\* A list of incidents none of which the llm scored: the llm source is
\* reported as no data next to the baseline's metrics.
C20_Witness ==
    /\ MetricsReturned
    /\ Len(calc.scenarios) > 0
    /\ Scored("llm") = {}
    /\ calc.results["llm"] = NoData
    /\ Reported = {"baseline"}

\* The empty list is reported as no data for both sources.
EmptyListIsNoData ==
    (MetricsEnded /\ calc.scenarios = <<>>) =>
        /\ calc.returned
        /\ \A src \in EvalSources : calc.results[src] = NoData

EmptyListCalled == MetricsReturned /\ calc.scenarios = <<>>

(***************************************************************************)
(* The rule table as a module-level list: import, then requests            *)
(***************************************************************************)
MaxRequests == 3

\* for rule in BASELINE_RULES, over the list the name is bound to.
RECURSIVE RuleLoopOver(_, _, _, _, _)
RuleLoopOver(rules, i, search_text, matched_rule, match_count) ==
    IF i > Len(rules)
    THEN [matched_rule |-> matched_rule, match_count |-> match_count]
    ELSE LET current_matches == CurrentMatches(rules[i], search_text)
         IN  IF current_matches > match_count
             THEN RuleLoopOver(rules, i + 1, search_text, i, current_matches)
             ELSE RuleLoopOver(rules, i + 1, search_text, matched_rule, match_count)

\* baseline_rca over the list the name is bound to; BASELINE_RULES[-1] of an
\* empty list raises IndexError.
BaselineRcaOver(rules, incident_summary, alert_list, now) ==
    LET loop == RuleLoopOver(rules, 1, SearchText(incident_summary, alert_list), 0, 0)
        matched_rule == IF loop.matched_rule = 0 THEN Len(rules)
                        ELSE loop.matched_rule
    IN  IF matched_rule = 0
        THEN [error |-> "IndexError", matched_rule |-> 0, result |-> NoneVal]
        ELSE LET rule == rules[matched_rule]
             IN  [error |-> NoneVal,
                  matched_rule |-> matched_rule,
                  result |->
                      [incident_summary |-> incident_summary,
                       hypotheses |-> <<rule.hypothesis>>,
                       confidence_scores |-> {<<rule.hypothesis, rule.confidence>>},
                       evidence |-> [alerts |-> rule.evidence,
                                     match_count |-> loop.match_count],
                       generated_at |-> now,
                       model |-> "baseline-rules"]]

\* The table as written, and the table after an edit that leaves a rule
\* without patterns, or leaves no rule.
RulesFirstEmptied == [BASELINE_RULES EXCEPT ![1].patterns = <<>>]

RulesFallbackEmptied == [BASELINE_RULES EXCEPT ![Len(BASELINE_RULES)].patterns = <<>>]

RulesNone == <<>>

RuleTables == {BASELINE_RULES, RulesFirstEmptied, RulesFallbackEmptied, RulesNone}

\* The module before its import: rules is what the list literal holds.
RcaModule(rules) ==
    [fn |-> "rca", rules |-> rules, imported |-> FALSE, import_error |-> NoneVal,
     requests |-> 0, incident_summary |-> <<>>, alerts |-> NoAlertList,
     error |-> NoneVal, matched_rule |-> 0, result |-> NoneVal]

\* import teleops.llm.rca: the list literal is bound to BASELINE_RULES;
\* nothing reads the rules.
ImportRca ==
    /\ calc.fn = "rca"
    /\ ~calc.imported
    /\ calc' = [calc EXCEPT !.imported = TRUE]
    /\ UNCHANGED <<alerts, incidents, run, source>>

\* A request that calls baseline_rca.
ServeBaselineRca ==
    /\ calc.fn = "rca"
    /\ calc.imported
    /\ calc.requests < MaxRequests
    /\ \E incident_summary \in Summaries, alert_list \in {NoAlertList, AlertList(<<BgpAlert>>)} :
           LET out == BaselineRcaOver(calc.rules, incident_summary, alert_list, 0)
           IN  calc' = [calc EXCEPT !.requests = @ + 1,
                                    !.incident_summary = incident_summary,
                                    !.alerts = alert_list,
                                    !.error = out.error,
                                    !.matched_rule = out.matched_rule,
                                    !.result = out.result]
    /\ UNCHANGED <<alerts, incidents, run, source>>

InitRules ==
    /\ alerts = <<>>
    /\ incidents = <<>>
    /\ run = Idle
    /\ source = "volume"
    /\ \E rules \in RuleTables : calc = RcaModule(rules)

NextRules ==
    \/ ImportRca
    \/ ServeBaselineRca

SpecRules == InitRules /\ [][NextRules]_vars

\* A table every rule of which has a pattern, and which has a rule.
ValidRules(rules) ==
    /\ Len(rules) > 0
    /\ \A i \in 1..Len(rules) : Len(rules[i].patterns) > 0

\* C21: an invalid rule table, such as one with a rule whose patterns list
\* is empty, is rejected at load time: the import does not complete and no
\* request is ever evaluated against it.
C21_InvalidTableRejectedAtLoad ==
    (calc.fn = "rca" /\ ~ValidRules(calc.rules)) =>
        /\ ~calc.imported
        /\ calc.requests = 0

\* What the code does with such a table: a rule without patterns counts no
\* match on any request and is returned only as the fallback, and an empty
\* table fails each request.
InvalidTableEvaluatedPerCall ==
    (calc.fn = "rca" /\ calc.requests > 0) =>
        /\ calc.import_error = NoneVal
        /\ (calc.error # NoneVal <=> calc.rules = <<>>)
        /\ (calc.error = NoneVal /\ calc.rules[calc.matched_rule].patterns = <<>>)
               => /\ calc.matched_rule = Len(calc.rules)
                  /\ calc.result.evidence.match_count = 0

\* On the table as written the list-bound matcher is baseline_rca.
SameOnTableAsWritten ==
    (calc.fn = "rca" /\ calc.requests > 0 /\ calc.rules = BASELINE_RULES) =>
        LET out == BaselineRca(calc.incident_summary, calc.alerts, 0)
        IN  /\ calc.matched_rule = out.matched_rule
            /\ calc.result = out.result

(***************************************************************************)
(* Token checks of the API and the ServiceNow webhook                      *)
(***************************************************************************)
\* A str | None value: a header that was not sent, a setting left unset.
NoStr == [isNone |-> TRUE, text |-> <<>>]

Str(text) == [isNone |-> FALSE, text |-> text]

\* if value: neither None nor the empty string
TruthyStr(value) == ~value.isNone /\ value.text # <<>>

\* str.strip() on spaces
Strip(text) ==
    LET kept == {i \in 1..Len(text) : text[i] # " "}
    IN  IF kept = {} THEN <<>>
        ELSE LET first == CHOOSE i \in kept : \A j \in kept : i <= j
                 last == CHOOSE i \in kept : \A j \in kept : j <= i
             IN  SubSeq(text, first, last)

\* str.startswith(prefix)
StartsWith(text, prefix) ==
    /\ Len(text) >= Len(prefix)
    /\ SubSeq(text, 1, Len(prefix)) = prefix

\* text.split(" ", 1)[1], for a text that holds a space
AfterFirstSpace(text) ==
    LET first == CHOOSE i \in 1..Len(text) :
                     text[i] = " " /\ \A j \in 1..(i - 1) : text[j] # " "
    IN  SubSeq(text, first + 1, Len(text))

BearerPrefix ==
    <<"b", "e", "a", "r", "e", "r", " ">>

\* _extract_token
ExtractToken(authorization, x_api_key) ==
    IF TruthyStr(x_api_key) THEN Str(Strip(x_api_key.text))
    ELSE IF TruthyStr(authorization)
            /\ StartsWith(LowerStr(authorization.text), BearerPrefix)
    THEN Str(Strip(AfterFirstSpace(authorization.text)))
    ELSE NoStr

Passed == 200

Unauthorized == 401

TenantRequired == 400

\* require_api_token / require_admin_token against the configured token:
\* the status the dependency ends the request with, Passed if it returns.
RequireToken(configured, authorization, x_api_key) ==
    IF ~TruthyStr(configured) THEN Passed
    ELSE IF ExtractToken(authorization, x_api_key) # configured THEN Unauthorized
    ELSE Passed

\* require_tenant_id
RequireTenantId(required, tenant_id) ==
    IF required /\ ~TruthyStr(tenant_id) THEN TenantRequired ELSE Passed

\* POST /integrations/servicenow/webhook with a valid payload: the status of
\* the response; the dependencies run in the order of the parameters.
IngestServicenowWebhook(settings, request) ==
    LET token == RequireToken(settings.admin_token, request.authorization,
                              request.x_api_key)
    IN  IF token # Passed THEN token
        ELSE RequireTenantId(settings.require_tenant_id, request.tenant_id)

SecretToken ==
    <<"s", "e", "c", "r", "e", "t", "-", "t", "o", "k", "e", "n">>

AdminToken ==
    <<"a", "d", "m", "i", "n", "-", "t", "o", "k", "e", "n">>

WrongToken ==
    <<"w", "r", "o", "n", "g">>

PaddedSecret ==
    <<" ", " ", "s", "e", "c", "r", "e", "t", "-", "t", "o", "k", "e", "n",
      " ">>

BearerSecret ==
    <<"B", "e", "a", "r", "e", "r", " ", "s", "e", "c", "r", "e", "t", "-",
      "t", "o", "k", "e", "n">>

BearerAdmin ==
    <<"b", "e", "a", "r", "e", "r", " ", " ", "a", "d", "m", "i", "n", "-",
      "t", "o", "k", "e", "n">>

BasicSecret ==
    <<"B", "a", "s", "i", "c", " ", "s", "e", "c", "r", "e", "t", "-", "t",
      "o", "k", "e", "n">>

BearerWrong ==
    <<"B", "E", "A", "R", "E", "R", " ", "w", "r", "o", "n", "g">>

TenantA ==
    <<"t", "e", "n", "a", "n", "t", "-", "a">>

\* GET /integrations/jira/issues
GetJiraIssues(settings, request) ==
    LET token == RequireToken(settings.api_token, request.authorization,
                              request.x_api_key)
    IN  IF token # Passed THEN token
        ELSE RequireTenantId(settings.require_tenant_id, request.tenant_id)

\* settings.api_token, settings.admin_token, settings.require_tenant_id
SettingsChoices ==
    [api_token : {NoStr, Str(SecretToken)},
     admin_token : {NoStr, Str(AdminToken), Str(SecretToken)},
     require_tenant_id : BOOLEAN]

\* The Authorization, X-API-Key and X-Tenant-Id headers of a request.
RequestChoices ==
    [authorization : {NoStr, Str(BearerSecret), Str(BearerAdmin), Str(BasicSecret),
                      Str(BearerWrong)},
     x_api_key : {NoStr, Str(<<>>), Str(SecretToken), Str(PaddedSecret),
                  Str(AdminToken), Str(WrongToken)},
     tenant_id : {NoStr, Str(TenantA)}]

NoRoute == "none"

ApiArgs(settings, request) ==
    [fn |-> "api", settings |-> settings, request |-> request,
     route |-> NoRoute, status |-> 0, events |-> 0]

\* The webhook answers the request; a request that passed is logged.
PostServicenowWebhook ==
    /\ calc.fn = "api"
    /\ calc.route = NoRoute
    /\ LET status == IngestServicenowWebhook(calc.settings, calc.request)
       IN  calc' = [calc EXCEPT !.route = "/integrations/servicenow/webhook",
                                !.status = status,
                                !.events = IF status = Passed THEN @ + 1 ELSE @]
    /\ UNCHANGED <<alerts, incidents, run, source>>

GetJira ==
    /\ calc.fn = "api"
    /\ calc.route = NoRoute
    /\ calc' = [calc EXCEPT !.route = "/integrations/jira/issues",
                            !.status = GetJiraIssues(calc.settings, calc.request)]
    /\ UNCHANGED <<alerts, incidents, run, source>>

InitAuth ==
    /\ alerts = <<>>
    /\ incidents = <<>>
    /\ run = Idle
    /\ source = "volume"
    /\ \E settings \in SettingsChoices, request \in RequestChoices :
           calc = ApiArgs(settings, request)

NextAuth ==
    \/ PostServicenowWebhook
    \/ GetJira

SpecAuth == InitAuth /\ [][NextAuth]_vars

WebhookAnswered == calc.fn = "api" /\ calc.route = "/integrations/servicenow/webhook"

\* The request carries the token in X-API-Key or as a Bearer credential.
CarriesToken(request, token) ==
    \/ /\ ~request.x_api_key.isNone
       /\ Strip(request.x_api_key.text) = token
    \/ /\ ~request.authorization.isNone
       /\ StartsWith(LowerStr(request.authorization.text), BearerPrefix)
       /\ Strip(AfterFirstSpace(request.authorization.text)) = token

\* C22: when settings.api_token is configured, a POST to
\* /integrations/servicenow/webhook that carries no matching token (neither
\* in X-API-Key nor as Bearer) is rejected with HTTP 401.
C22_WebhookRejectsWithoutApiToken ==
    (/\ WebhookAnswered
     /\ TruthyStr(calc.settings.api_token)
     /\ ~CarriesToken(calc.request, calc.settings.api_token.text))
        => calc.status = Unauthorized

\* What the webhook does enforce: the admin token, when that is configured,
\* and nothing when it is not, whatever settings.api_token is.
WebhookEnforcesAdminToken ==
    WebhookAnswered =>
        /\ (TruthyStr(calc.settings.admin_token)
              /\ ~CarriesToken(calc.request, calc.settings.admin_token.text))
               => calc.status = Unauthorized
        /\ ~TruthyStr(calc.settings.admin_token) => calc.status # Unauthorized

\* The routes that depend on require_api_token do reject such a request.
JiraEnforcesApiToken ==
    (/\ calc.fn = "api"
     /\ calc.route = "/integrations/jira/issues"
     /\ TruthyStr(calc.settings.api_token)
     /\ ~CarriesToken(calc.request, calc.settings.api_token.text))
        => calc.status = Unauthorized

(***************************************************************************)
(* restore_from_firestore                                                  *)
(***************************************************************************)
MaxDocs == 2

\* A value read with data["key"]: present with an id, or missing.
Key(id) == [present |-> TRUE, id |-> id]

NoKey == [present |-> FALSE, id |-> ""]

\* The SQLite tables, and the rows a session holds for its commit, by
\* primary key.
NoRows == [alerts |-> {}, incidents |-> {}, rca_artifacts |-> {}]

\* The index of the first item read without its id, 0 if every item has one.
FirstMissing(items) ==
    IF \A i \in 1..Len(items) : items[i].present THEN 0
    ELSE CHOOSE i \in 1..Len(items) :
             ~items[i].present /\ \A j \in 1..(i - 1) : items[j].present

\* The ids of the items merged before the loop over them ended.
MergedIds(items) ==
    LET stop == FirstMissing(items)
        last == IF stop = 0 THEN Len(items) ELSE stop - 1
    IN  {items[i].id : i \in 1..last}

\* The body of the try for one document: the rows the session holds after
\* it, and whether it raised. db_session.merge adds a row or overwrites the
\* one with the same key; nothing is removed when the body raises.
RestoreDoc(pending, doc) ==
    IF doc.to_dict_raises
    THEN [pending |-> pending, raised |-> TRUE]
    ELSE LET with_alerts ==
                 [pending EXCEPT !.alerts = @ \cup MergedIds(doc.alerts)]
         IN  IF FirstMissing(doc.alerts) # 0 \/ ~doc.incident_id.present
             THEN [pending |-> with_alerts, raised |-> TRUE]
             ELSE LET with_incident ==
                          [with_alerts EXCEPT
                               !.incidents = @ \cup {doc.incident_id.id},
                               !.rca_artifacts =
                                   @ \cup MergedIds(doc.rca_artifacts)]
                  IN  [pending |-> with_incident,
                       raised |-> FirstMissing(doc.rca_artifacts) # 0]

\* for doc in doc_list, from the i-th document on.
RECURSIVE RestoreLoop(_, _, _, _)
RestoreLoop(doc_list, i, pending, restored) ==
    IF i > Len(doc_list)
    THEN [pending |-> pending, restored |-> restored]
    ELSE LET out == RestoreDoc(pending, doc_list[i])
         IN  RestoreLoop(doc_list, i + 1, out.pending,
                         IF out.raised THEN restored ELSE restored + 1)

\* restore_from_firestore: the tables after the call and the value returned.
RestoreFromFirestore(firestore, doc_list, sqlite) ==
    IF ~firestore \/ sqlite.incidents # {} \/ doc_list = <<>>
    THEN [sqlite |-> sqlite, result |-> 0]
    ELSE LET out == RestoreLoop(doc_list, 1, NoRows, 0)
         IN  [sqlite |->
                  [alerts |-> sqlite.alerts \cup out.pending.alerts,
                   incidents |-> sqlite.incidents \cup out.pending.incidents,
                   rca_artifacts |->
                       sqlite.rca_artifacts \cup out.pending.rca_artifacts],
              result |-> out.restored]

\* The documents of the collection: the two of
\* test_handles_corrupt_document_gracefully, and documents that lack a key
\* the restore reads with data[...].
Doc(id, to_dict_raises, alert_keys, incident_id, rca_keys) ==
    [id |-> id, to_dict_raises |-> to_dict_raises, alerts |-> alert_keys,
     incident_id |-> incident_id, rca_artifacts |-> rca_keys]

GoodDoc == Doc("good_incident", FALSE, <<>>, Key("good_incident"), <<>>)

FullDoc ==
    Doc("full_incident", FALSE, <<Key("full_a1"), Key("full_a2")>>,
        Key("full_incident"), <<Key("full_r1")>>)

BadDoc == Doc("bad_incident", TRUE, <<Key("bad_a1")>>, Key("bad_incident"), <<>>)

NoIncidentIdDoc ==
    Doc("unnamed_incident", FALSE, <<Key("unnamed_a1")>>, NoKey, <<>>)

NoAlertIdDoc ==
    Doc("alert_incident", FALSE, <<Key("alert_a1"), NoKey, Key("alert_a3")>>,
        Key("alert_incident"), <<>>)

NoRcaIdDoc ==
    Doc("rca_incident", FALSE, <<Key("rca_a1")>>, Key("rca_incident"),
        <<Key("rca_r1"), NoKey>>)

DocChoices == {GoodDoc, FullDoc, BadDoc, NoIncidentIdDoc, NoAlertIdDoc, NoRcaIdDoc}

\* Collections of distinct documents.
DocLists ==
    {doc_list \in UNION {[1..n -> DocChoices] : n \in 0..MaxDocs} :
         \A i, j \in 1..Len(doc_list) : i # j => doc_list[i] # doc_list[j]}

\* SQLite on startup: wiped, or still holding an incident.
SqliteChoices ==
    {NoRows, [alerts |-> {"old_a1"}, incidents |-> {"old_incident"},
              rca_artifacts |-> {}]}

RestoreArgs(firestore, doc_list, sqlite) ==
    [fn |-> "restore_from_firestore", firestore |-> firestore,
     docs |-> doc_list, before |-> sqlite, sqlite |-> sqlite,
     returned |-> FALSE, result |-> 0]

CallRestoreFromFirestore ==
    /\ calc.fn = "restore_from_firestore"
    /\ ~calc.returned
    /\ LET out == RestoreFromFirestore(calc.firestore, calc.docs, calc.sqlite)
       IN  calc' = [calc EXCEPT !.sqlite = out.sqlite,
                                !.result = out.result,
                                !.returned = TRUE]
    /\ UNCHANGED <<alerts, incidents, run, source>>

InitRestore ==
    /\ alerts = <<>>
    /\ incidents = <<>>
    /\ run = Idle
    /\ source = "volume"
    /\ \E firestore \in BOOLEAN, doc_list \in DocLists, sqlite \in SqliteChoices :
           calc = RestoreArgs(firestore, doc_list, sqlite)

NextRestore == CallRestoreFromFirestore

SpecRestore == InitRestore /\ [][NextRestore]_vars

\* The call went through the documents: Firestore is set up and SQLite
\* held no incident.
Restoring ==
    /\ calc.fn = "restore_from_firestore"
    /\ calc.returned
    /\ calc.firestore
    /\ calc.before.incidents = {}

\* Restoring the document raises: to_dict fails or a key read with
\* data[...] is missing.
Raises(doc) ==
    \/ doc.to_dict_raises
    \/ ~doc.incident_id.present
    \/ \E i \in 1..Len(doc.alerts) : ~doc.alerts[i].present
    \/ \E i \in 1..Len(doc.rca_artifacts) : ~doc.rca_artifacts[i].present

\* The rows the document names.
RowsNamed(doc) ==
    [alerts |-> {doc.alerts[i].id : i \in {j \in 1..Len(doc.alerts) : doc.alerts[j].present}},
     incidents |-> IF doc.incident_id.present THEN {doc.incident_id.id} ELSE {},
     rca_artifacts |->
         {doc.rca_artifacts[i].id :
              i \in {j \in 1..Len(doc.rca_artifacts) : doc.rca_artifacts[j].present}}]

SkippedDocs == {i \in 1..Len(calc.docs) : Raises(calc.docs[i])}

RestoredDocs == {i \in 1..Len(calc.docs) : ~Raises(calc.docs[i])}

\* The returned count and the rows of the documents that did not raise.
OthersRestoredAndCounted ==
    Restoring =>
        /\ calc.result = Cardinality(RestoredDocs)
        /\ \A i \in RestoredDocs :
               /\ RowsNamed(calc.docs[i]).alerts \subseteq calc.sqlite.alerts
               /\ RowsNamed(calc.docs[i]).incidents \subseteq calc.sqlite.incidents
               /\ RowsNamed(calc.docs[i]).rca_artifacts
                      \subseteq calc.sqlite.rca_artifacts

\* C23: restore_from_firestore skips any document whose restoration raises,
\* still restores every other document, and returns the number of documents
\* restored; a skipped document leaves no alert, incident or RCA artifact
\* row behind in SQLite.
C23_SkippedDocumentLeavesNoRows ==
    Restoring =>
        /\ calc.result = Cardinality(RestoredDocs)
        /\ \A i \in RestoredDocs :
               /\ RowsNamed(calc.docs[i]).alerts \subseteq calc.sqlite.alerts
               /\ RowsNamed(calc.docs[i]).incidents \subseteq calc.sqlite.incidents
               /\ RowsNamed(calc.docs[i]).rca_artifacts
                      \subseteq calc.sqlite.rca_artifacts
        /\ \A i \in SkippedDocs :
               /\ RowsNamed(calc.docs[i]).alerts \cap calc.sqlite.alerts = {}
               /\ RowsNamed(calc.docs[i]).incidents \cap calc.sqlite.incidents = {}
               /\ RowsNamed(calc.docs[i]).rca_artifacts
                      \cap calc.sqlite.rca_artifacts = {}

\* A document whose to_dict raises, the corrupt document of the test, does
\* leave nothing behind.
UnreadableDocumentLeavesNoRows ==
    Restoring =>
        \A i \in 1..Len(calc.docs) :
            calc.docs[i].to_dict_raises =>
                /\ RowsNamed(calc.docs[i]).alerts \cap calc.sqlite.alerts = {}
                /\ RowsNamed(calc.docs[i]).incidents \cap calc.sqlite.incidents = {}

\* The call is skipped when Firestore is not set up or SQLite holds data.
RestoreSkipped ==
    (/\ calc.fn = "restore_from_firestore"
     /\ calc.returned
     /\ (~calc.firestore \/ calc.before.incidents # {}))
        => calc.result = 0 /\ calc.sqlite = calc.before

(***************************************************************************)
(* POST /rca/{artifact_id}/review: concurrent requests on one artifact     *)
(***************************************************************************)
MaxReviewers == 2

Reviewers == 1..MaxReviewers

Decisions == {"accepted", "rejected"}

ReviewerNames == {"alice", "bob"}

Conflict == 409

\* A request that has not arrived yet.
NoRequest ==
    [pc |-> "idle", decision |-> "", reviewed_by |-> "", tenant_id |-> NoStr,
     loaded_status |-> "", committed |-> FALSE, status_code |-> 0]

\* The row of the artifact, the audit log, and the requests in flight; each
\* request has its own session (get_db), so what it loaded is its own copy.
ReviewArgs(status) ==
    [fn |-> "review_rca_artifact",
     artifact |-> [status |-> status, reviewed_by |-> NoneVal, reviewed_at |-> 0],
     incident |-> [tenant_id |-> TenantA],
     audit |-> <<>>, clock |-> 0, overlapped |-> FALSE,
     requests |-> [r \in Reviewers |-> NoRequest]]

\* Requests between their query and their commit or rejection.
InFlight == {r \in Reviewers : calc.requests[r].pc = "loaded"}

\* db.query(RCAArtifact).filter(...).first(): the request reads the row.
LoadArtifact(r) ==
    /\ calc.fn = "review_rca_artifact"
    /\ calc.requests[r].pc = "idle"
    /\ \E decision \in Decisions, reviewed_by \in ReviewerNames,
          tenant_id \in {NoStr, Str(TenantA)} :
           calc' = [calc EXCEPT
                        !.overlapped = @ \/ InFlight # {},
                        !.requests[r] =
                            [NoRequest EXCEPT
                                 !.pc = "loaded",
                                 !.decision = decision,
                                 !.reviewed_by = reviewed_by,
                                 !.tenant_id = tenant_id,
                                 !.loaded_status = calc.artifact.status]]
    /\ UNCHANGED <<alerts, incidents, run, source>>

\* if artifact.status != "pending_review": raise HTTPException(409)
RejectReviewed(r) ==
    /\ calc.fn = "review_rca_artifact"
    /\ calc.requests[r].pc = "loaded"
    /\ calc.requests[r].loaded_status # "pending_review"
    /\ calc' = [calc EXCEPT !.requests[r].pc = "done",
                            !.requests[r].status_code = Conflict]
    /\ UNCHANGED <<alerts, incidents, run, source>>

\* The tenant of the parent incident is the request's, if it names one;
\* then artifact.status = ...; artifact.reviewed_by = ...;
\* artifact.reviewed_at = now; db.commit(): the UPDATE is by primary key
\* alone.
CommitReview(r) ==
    /\ calc.fn = "review_rca_artifact"
    /\ calc.requests[r].pc = "loaded"
    /\ calc.requests[r].loaded_status = "pending_review"
    /\ TruthyStr(calc.requests[r].tenant_id)
           => calc.incident.tenant_id = calc.requests[r].tenant_id.text
    /\ calc' = [calc EXCEPT
                    !.clock = @ + 1,
                    !.artifact = [status |-> calc.requests[r].decision,
                                  reviewed_by |-> calc.requests[r].reviewed_by,
                                  reviewed_at |-> calc.clock + 1],
                    !.requests[r].pc = "committed",
                    !.requests[r].committed = TRUE]
    /\ UNCHANGED <<alerts, incidents, run, source>>

\* _append_audit_event(...), then the response.
AuditReview(r) ==
    /\ calc.fn = "review_rca_artifact"
    /\ calc.requests[r].pc = "committed"
    /\ calc' = [calc EXCEPT
                    !.audit = Append(@, [decision |-> calc.requests[r].decision,
                                         reviewed_by |-> calc.requests[r].reviewed_by]),
                    !.requests[r].pc = "done",
                    !.requests[r].status_code = Passed]
    /\ UNCHANGED <<alerts, incidents, run, source>>

InitReview ==
    /\ alerts = <<>>
    /\ incidents = <<>>
    /\ run = Idle
    /\ source = "volume"
    /\ \E status \in {"pending_review"} \cup Decisions : calc = ReviewArgs(status)

NextReview ==
    \E r \in Reviewers :
        \/ LoadArtifact(r)
        \/ RejectReviewed(r)
        \/ CommitReview(r)
        \/ AuditReview(r)

SpecReview == InitReview /\ [][NextReview]_vars

\* The requests that moved the status.
Succeeded == {r \in Reviewers : calc.requests[r].committed}

\* At most one request moved the status, the row and the audit log are as
\* that request left them, and every other answered request got 409.
ReviewedOnce ==
    /\ Cardinality(Succeeded) <= 1
    /\ Len(calc.audit) <= 1
    /\ \A r \in Succeeded :
           /\ calc.artifact.status = calc.requests[r].decision
           /\ calc.artifact.reviewed_by = calc.requests[r].reviewed_by
    /\ \A r \in Reviewers \ Succeeded :
           calc.requests[r].pc = "done" => calc.requests[r].status_code = Conflict

\* C24: each RCA artifact can be reviewed at most once: across any sequence
\* or interleaving of review requests for one artifact at most one request
\* succeeds and moves the status from pending_review to accepted or
\* rejected; every other request returns 409 and leaves status, reviewed_by,
\* reviewed_at and the audit log unchanged.
C24_ReviewedAtMostOnce == calc.fn = "review_rca_artifact" => ReviewedOnce

\* Requests that arrive one after the other are reviewed at most once.
ReviewedOnceInSequence ==
    (calc.fn = "review_rca_artifact" /\ ~calc.overlapped) => ReviewedOnce

(***************************************************************************)
(* correlate_alerts over tables of up to MaxGroups tags                    *)
(***************************************************************************)
MaxGroups == 5

MaxGroupCount == 2

GroupTags == <<"t1", "t2", "t3", "t4", "t5", "t6", "t7", "t8">>

\* The sizes of the groups of a table, in the order the tags first occur.
CountProfiles == UNION {[1..n -> 1..MaxGroupCount] : n \in 0..MaxGroups}

\* The alerts before the k-th group.
RECURSIVE RowsBefore(_, _)
RowsBefore(profile, k) ==
    IF k <= 1 THEN 0 ELSE RowsBefore(profile, k - 1) + profile[k - 1]

\* A table with profile[k] alerts of the k-th tag, all of one tenant and one
\* second.
RECURSIVE ProfileRows(_, _)
ProfileRows(profile, k) ==
    IF k > Len(profile) THEN <<>>
    ELSE [i \in 1..profile[k] |->
              NewAlert(RowsBefore(profile, k) + i, 0, IncidentTags(GroupTags[k]),
                       "tenant-a")]
             \o ProfileRows(profile, k + 1)

\* correlate_alerts(session, min_alerts=...) once over the whole table.
CorrelateCounts ==
    /\ source = "counts"
    /\ ~run.called
    /\ \E min_alerts \in 1..MaxGroupCount :
           LET n == Len(AdmittedOf(alerts, DefaultWindowMinutes, min_alerts, NoIds))
           IN  \E stamps \in [1..n -> Stamps] :
                   LET frame == Frame(alerts, incidents, DefaultWindowMinutes,
                                      min_alerts, NoIds, stamps)
                   IN  /\ run' = frame
                       /\ incidents' = incidents \o frame.returned
    /\ UNCHANGED <<alerts, source, calc>>

InitCounts ==
    /\ \E profile \in CountProfiles : alerts = ProfileRows(profile, 1)
    /\ incidents = <<>>
    /\ run = Idle
    /\ source = "counts"
    /\ calc = NoCall

NextCounts == CorrelateCounts

SpecCounts == InitCounts /\ [][NextCounts]_vars

\* The largest group's count.
LargestCount ==
    CHOOSE n \in {Count(t) : t \in QueriedTags} : \A t \in QueriedTags : Count(t) <= n

\* C25: whenever the noise threshold is applied in correlate_alerts (at
\* least two groups with unequal counts), the largest group's count is
\* strictly above the threshold, so the noise filter never discards every
\* group.
C25_LargestGroupAboveThreshold ==
    (/\ Returned
     /\ Cardinality(QueriedTags) >= 2
     /\ Unequal(QueriedTags))
        => /\ ~run.threshold.isNone
           /\ Scale * LargestCount > run.threshold.scaled
           /\ \E t \in QueriedTags : Scale * Count(t) > run.threshold.scaled

\* With at most four groups the largest group is above the threshold.
UpToFourGroupsKeepLargest ==
    (/\ Returned
     /\ Cardinality(QueriedTags) \in 2..4
     /\ Unequal(QueriedTags))
        => Scale * LargestCount > run.threshold.scaled

(***************************************************************************)
(* Tenants: correlate_alerts, then GET /incidents/{incident_id}/alerts     *)
(***************************************************************************)
MaxTenantAlerts == 2

NotFound == 404

Tenants == {"tenant-a", "tenant-b"}

\* Tables of alerts of one tag, of either tenant or of none.
TenantRows ==
    UNION {[1..n -> [timestamp : {0, 60}, tenant_id : Tenants \cup {NoneVal}]] :
               n \in 0..MaxTenantAlerts}

TenantTable(rows) ==
    [i \in 1..Len(rows) |->
         NewAlert(i, rows[i].timestamp, IncidentTags("a"), rows[i].tenant_id)]

\* correlate_alerts(session, min_alerts=1) once over the whole table.
CorrelateTenants ==
    /\ source = "tenants"
    /\ ~run.called
    /\ LET n == Len(AdmittedOf(alerts, DefaultWindowMinutes, 1, NoIds))
       IN  \E stamps \in [1..n -> Stamps] :
               LET frame == Frame(alerts, incidents, DefaultWindowMinutes, 1,
                                  NoIds, stamps)
               IN  /\ run' = frame
                   /\ incidents' = incidents \o frame.returned
    /\ UNCHANGED <<alerts, source, calc>>

\* list_incident_alerts for a stored incident: the status, and the alerts
\* returned.
ListIncidentAlertsOf(incident, tenant_id, store) ==
    IF tenant_id # NoneVal /\ incident.tenant_id # tenant_id
    THEN [status |-> NotFound, alerts |-> <<>>]
    ELSE IF incident.related_alert_ids = <<>>
    THEN [status |-> Passed, alerts |-> <<>>]
    ELSE [status |-> Passed,
          alerts |-> SelectSeq2(store, Range(incident.related_alert_ids))]

\* GET /incidents/{incident_id}/alerts, with or without X-Tenant-Id.
ListIncidentAlerts ==
    /\ source = "tenants"
    /\ calc = NoCall
    /\ \E i \in 1..Len(incidents), tenant_id \in Tenants \cup {NoneVal} :
           LET out == ListIncidentAlertsOf(incidents[i], tenant_id, alerts)
           IN  calc' = [fn |-> "list_incident_alerts",
                        incident_id |-> incidents[i].id,
                        tenant_id |-> tenant_id,
                        status |-> out.status,
                        alerts |-> out.alerts]
    /\ UNCHANGED <<alerts, incidents, run, source>>

InitTenants ==
    /\ \E rows \in TenantRows : alerts = TenantTable(rows)
    /\ incidents = <<>>
    /\ run = Idle
    /\ source = "tenants"
    /\ calc = NoCall

NextTenants ==
    \/ CorrelateTenants
    \/ ListIncidentAlerts

SpecTenants == InitTenants /\ [][NextTenants]_vars

\* Every alert an incident of the call lists has the incident's tenant.
MembersShareTenant ==
    Returned =>
        \A i \in 1..Len(run.returned) :
            \A j \in 1..Len(run.returned[i].related_alert_ids) :
                AlertById(run.returned[i].related_alert_ids[j]).tenant_id
                    = run.returned[i].tenant_id

\* A request that names a tenant is answered with that tenant's alerts only.
HeaderTenantOnly ==
    (calc.fn = "list_incident_alerts" /\ calc.tenant_id # NoneVal) =>
        \A i \in 1..Len(calc.alerts) : calc.alerts[i].tenant_id = calc.tenant_id

\* C26: every alert listed in the related_alert_ids of an incident created
\* by correlate_alerts has the same tenant_id as the incident, so GET
\* /incidents/{incident_id}/alerts called with an X-Tenant-Id header never
\* returns an alert that belongs to a different tenant.
C26_IncidentAlertsShareTenant == MembersShareTenant /\ HeaderTenantOnly

\* The incident does carry the tenant of its earliest alert, and a request
\* of another tenant is answered 404.
IncidentTenantFromFirstAlert ==
    /\ Returned =>
           \A i \in 1..Len(run.returned) :
               run.returned[i].tenant_id
                   = AlertById(run.returned[i].related_alert_ids[1]).tenant_id
    /\ (/\ calc.fn = "list_incident_alerts"
        /\ calc.tenant_id # NoneVal
        /\ calc.status = Passed)
           => \E i \in 1..Len(incidents) :
                  /\ incidents[i].id = calc.incident_id
                  /\ incidents[i].tenant_id = calc.tenant_id

(***************************************************************************)
(* correlate_alerts called with alert_ids                                  *)
(***************************************************************************)
\* Every incident the call returned lists only alerts named in alert_ids.
WithinAlertIds ==
    \A i \in 1..Len(run.returned) :
        Range(run.returned[i].related_alert_ids) \subseteq Range(run.alert_ids.ids)

\* C27: when correlate_alerts is called with an alert_ids list, only alerts
\* whose ids are in that list are grouped: for every list, the empty list
\* included, each returned incident's related_alert_ids is a subset of
\* alert_ids.
C27_OnlyListedAlertsGrouped ==
    (Returned /\ ~run.alert_ids.isNone) => WithinAlertIds

\* For a list that names at least one alert the call keeps to the list.
NonEmptyListRespected ==
    (Returned /\ ~run.alert_ids.isNone /\ run.alert_ids.ids # <<>>) =>
        /\ WithinAlertIds
        /\ Range(run.alerts) = {a \in Range(alerts) : a.id \in Range(run.alert_ids.ids)}

\* The empty list is treated as no list: the whole table is queried.
EmptyListQueriesAll ==
    (run.called /\ ~run.alert_ids.isNone /\ run.alert_ids.ids = <<>>) =>
        run.alerts = alerts

(***************************************************************************)
(* compute_quality_metrics: relations between the metrics of a source      *)
(***************************************************************************)
\* C28: for every source with at least one attempted incident, the metrics
\* returned satisfy total_correct <= total_attempted <= number of incidents
\* passed in, recall <= precision, and wrong_but_confident_count <=
\* total_attempted - total_correct.
C28_MetricsOrdered ==
    MetricsReturned =>
        \A src \in EvalSources :
            Scored(src) # {} =>
                LET metrics == calc.results[src]
                IN  /\ ~metrics.isNone
                    /\ 0 <= metrics.total_correct
                    /\ metrics.total_correct <= metrics.total_attempted
                    /\ metrics.total_attempted <= Len(calc.scenarios)
                    /\ metrics.recall <= metrics.precision
                    /\ metrics.wrong_but_confident_count
                           <= metrics.total_attempted - metrics.total_correct

\* A source that attempted some of the incidents, got some of those right
\* and was wrong but confident on another: recall is below precision.
C28_Witness ==
    /\ MetricsReturned
    /\ \E src \in Reported :
           LET metrics == calc.results[src]
           IN  /\ 0 < metrics.total_correct
               /\ metrics.total_correct < metrics.total_attempted
               /\ metrics.total_attempted < Len(calc.scenarios)
               /\ metrics.recall < metrics.precision
               /\ metrics.wrong_but_confident_count > 0
               /\ metrics.wrong_but_confident_count
                      = metrics.total_attempted - metrics.total_correct

(***************************************************************************)
(* rag/index.py: build_or_load_index under concurrent callers             *)
(***************************************************************************)
MaxCallers == 2

MaxCalls == 2

Callers == 1..MaxCallers

\* _INDEX = None, and a caller's local index before it has one.
NoIndex == [isNone |-> TRUE, id |-> 0, origin |-> "", persisted |-> FALSE]

\* The object load_index_from_storage or VectorStoreIndex.from_documents
\* returns: each call makes a new object.
IndexObject(id, origin, persisted) ==
    [isNone |-> FALSE, id |-> id, origin |-> origin, persisted |-> persisted]

\* Mutant of IndexIsSet: the module's index is never seen as set.
IndexIsSetNever(index) == FALSE

\* if _INDEX is not None: (lines 38 and 43)
IndexIsSet(index) == ~index.isNone

\* A thread outside build_or_load_index.
NoCaller ==
    [pc |-> "idle", index |-> NoIndex, returned |-> NoIndex, error |-> "",
     calls |-> 0]

\* The module's globals, the index directory, whether the llama_index
\* imports succeed, and the threads.
IndexArgs(installed, docstore) ==
    [fn |-> "build_or_load_index",
     _INDEX |-> NoIndex, _INDEX_LOCK |-> 0,
     installed |-> installed, docstore |-> docstore,
     made |-> 0, assigned |-> 0, overlapped |-> FALSE, raised |-> FALSE,
     returns |-> <<>>,
     callers |-> [c \in Callers |-> NoCaller]]

\* Threads inside the function.
Inside == {c \in Callers : calc.callers[c].pc \notin {"idle", "done"}}

\* return _INDEX: the global is read at the return.
ReturnIndex(c, lock) ==
    [calc EXCEPT !.callers[c].pc = "done",
                 !.callers[c].returned = calc._INDEX,
                 !.returns = Append(@, calc._INDEX),
                 !._INDEX_LOCK = lock]

\* An exception leaves the with block: the lock is released, _INDEX is as
\* it was.
RaiseInside(c, error) ==
    [calc EXCEPT !.callers[c].pc = "done",
                 !.callers[c].error = error,
                 !.raised = TRUE,
                 !._INDEX_LOCK = 0]

\* A thread calls build_or_load_index().
EnterBuildOrLoad(c) ==
    /\ calc.fn = "build_or_load_index"
    /\ calc.callers[c].pc \in {"idle", "done"}
    /\ calc.callers[c].calls < MaxCalls
    /\ calc' = [calc EXCEPT
                    !.overlapped = @ \/ Inside # {},
                    !.callers[c] = [NoCaller EXCEPT
                                        !.pc = "entered",
                                        !.calls = calc.callers[c].calls + 1]]
    /\ UNCHANGED <<alerts, incidents, run, source>>

\* if _INDEX is not None: return _INDEX (lines 38-39)
CheckUnlocked(c) ==
    /\ calc.fn = "build_or_load_index"
    /\ calc.callers[c].pc = "entered"
    /\ calc' = IF IndexIsSet(calc._INDEX)
               THEN ReturnIndex(c, calc._INDEX_LOCK)
               ELSE [calc EXCEPT !.callers[c].pc = "waiting"]
    /\ UNCHANGED <<alerts, incidents, run, source>>

\* with _INDEX_LOCK: the thread takes the lock when no thread holds it.
AcquireLock(c) ==
    /\ calc.fn = "build_or_load_index"
    /\ calc.callers[c].pc = "waiting"
    /\ calc._INDEX_LOCK = 0
    /\ calc' = [calc EXCEPT !._INDEX_LOCK = c, !.callers[c].pc = "locked"]
    /\ UNCHANGED <<alerts, incidents, run, source>>

\* The second check, under the lock (lines 43-44), then
\* _require_llama_index() (lines 46-53, 14-33).
CheckLocked(c) ==
    /\ calc.fn = "build_or_load_index"
    /\ calc.callers[c].pc = "locked"
    /\ calc' = IF IndexIsSet(calc._INDEX) THEN ReturnIndex(c, 0)
               ELSE IF ~calc.installed THEN RaiseInside(c, "RuntimeError")
               ELSE [calc EXCEPT !.callers[c].pc = "required"]
    /\ UNCHANGED <<alerts, incidents, run, source>>

\* Lines 61-65: docstore.json exists, the index is loaded from it, bound to
\* _INDEX and returned; load_index_from_storage may raise.
LoadIndex(c) ==
    /\ calc.fn = "build_or_load_index"
    /\ calc.callers[c].pc = "required"
    /\ calc.docstore
    /\ \E raised \in BOOLEAN :
           calc' =
               IF raised THEN RaiseInside(c, "Exception")
               ELSE LET loaded == IndexObject(calc.made + 1, "loaded", TRUE)
                        bound == [calc EXCEPT !.made = @ + 1,
                                              !.assigned = @ + 1,
                                              !._INDEX = loaded,
                                              !.callers[c].index = loaded]
                    IN  [bound EXCEPT !.callers[c].pc = "done",
                                      !.callers[c].returned = bound._INDEX,
                                      !.returns = Append(@, bound._INDEX),
                                      !._INDEX_LOCK = 0]
    /\ UNCHANGED <<alerts, incidents, run, source>>

\* Lines 67-74: no docstore.json; the corpus is read and the index built
\* into the local name index; the reader or the build may raise.
BuildIndex(c) ==
    /\ calc.fn = "build_or_load_index"
    /\ calc.callers[c].pc = "required"
    /\ ~calc.docstore
    /\ \E raised \in BOOLEAN :
           calc' =
               IF raised THEN RaiseInside(c, "Exception")
               ELSE [calc EXCEPT
                         !.made = @ + 1,
                         !.callers[c].index = IndexObject(calc.made + 1, "built", FALSE),
                         !.callers[c].pc = "built"]
    /\ UNCHANGED <<alerts, incidents, run, source>>

\* Line 75: index.storage_context.persist(persist_dir=...); a write that
\* raises may or may not have left docstore.json behind.
PersistIndex(c) ==
    /\ calc.fn = "build_or_load_index"
    /\ calc.callers[c].pc = "built"
    /\ \E raised \in BOOLEAN, left \in BOOLEAN :
           calc' =
               IF raised
               THEN [RaiseInside(c, "Exception") EXCEPT !.docstore = left]
               ELSE [calc EXCEPT !.docstore = TRUE,
                                 !.callers[c].index.persisted = TRUE,
                                 !.callers[c].pc = "persisted"]
    /\ UNCHANGED <<alerts, incidents, run, source>>

\* Lines 77-78: _INDEX = index; return _INDEX.
AssignIndex(c) ==
    /\ calc.fn = "build_or_load_index"
    /\ calc.callers[c].pc = "persisted"
    /\ LET bound == [calc EXCEPT !._INDEX = calc.callers[c].index,
                                 !.assigned = @ + 1]
       IN  calc' = [bound EXCEPT !.callers[c].pc = "done",
                                 !.callers[c].returned = bound._INDEX,
                                 !.returns = Append(@, bound._INDEX),
                                 !._INDEX_LOCK = 0]
    /\ UNCHANGED <<alerts, incidents, run, source>>

InitIndex ==
    /\ alerts = <<>>
    /\ incidents = <<>>
    /\ run = Idle
    /\ source = "volume"
    /\ \E installed \in BOOLEAN, docstore \in BOOLEAN :
           calc = IndexArgs(installed, docstore)

NextIndex ==
    \E c \in Callers :
        \/ EnterBuildOrLoad(c)
        \/ CheckUnlocked(c)
        \/ AcquireLock(c)
        \/ CheckLocked(c)
        \/ LoadIndex(c)
        \/ BuildIndex(c)
        \/ PersistIndex(c)
        \/ AssignIndex(c)

SpecIndex == InitIndex /\ [][NextIndex]_vars

\* C29: under any interleaving of concurrent build_or_load_index calls the
\* RAG index is built or loaded at most once (one object is ever bound to
\* _INDEX, and while no call has raised one object is ever made), every
\* call that returns returns that same object, and the object a caller gets
\* is whole: loaded from the store, or built and persisted.
C29_IndexBuiltOrLoadedOnce ==
    calc.fn = "build_or_load_index" =>
        /\ calc.assigned <= 1
        /\ ~calc.raised => calc.made <= 1
        /\ \A i \in 1..Len(calc.returns) :
               /\ ~calc.returns[i].isNone
               /\ calc.returns[i].persisted
               /\ calc.returns[i] = calc.returns[1]
               /\ calc.returns[i] = calc._INDEX
        /\ \A c \in Callers :
               (calc.callers[c].pc = "done" /\ calc.callers[c].error = "")
                   => calc.callers[c].returned = calc._INDEX

\* Two calls overlapped inside the function, both found _INDEX unset at the
\* first check, and both returned.
C29_Witness ==
    /\ calc.fn = "build_or_load_index"
    /\ calc.overlapped
    /\ ~calc.raised
    /\ calc.made = 1
    /\ calc.assigned = 1
    /\ Len(calc.returns) >= 2
    /\ calc._INDEX.origin = "built"
    /\ \A c \in Callers :
           /\ calc.callers[c].pc = "done"
           /\ calc.callers[c].calls = 1
           /\ calc.callers[c].error = ""

\* No thread is between the two checks while another holds a built index
\* that is not bound yet, unless the lock is held: the lock has one holder,
\* and only the holder is past the second check.
LockHeldWhileBuilding ==
    calc.fn = "build_or_load_index" =>
        \A c \in Callers :
            calc.callers[c].pc \in {"locked", "required", "built", "persisted"}
                <=> calc._INDEX_LOCK = c


(***************************************************************************)
(* api/app.py: _rotate_log_if_needed and the two append functions         *)
(***************************************************************************)
MaxBackupCount == 2

MaxEventBytes == 2

MaxAppends == 5

\* The names of the log's directory: 0 is log_path, k is log_path.name.k.
LogNames == 0..(MaxBackupCount + 1)

\* A name with no file behind it.
NoFile == [exists |-> FALSE, generation |-> 0, size |-> 0]

\* The directory before the first append.
NoFiles == [name \in LogNames |-> NoFile]

\* Path.rename: the target is replaced on POSIX; on Windows an existing
\* target raises FileExistsError.
Rename(files, from, to, platform) ==
    IF platform = "nt" /\ files.fs[to].exists
    THEN [files EXCEPT !.error = "FileExistsError"]
    ELSE [files EXCEPT !.fs[to] = files.fs[from], !.fs[from] = NoFile]

\* for idx in range(backup_count, 0, -1): (lines 246-252)
RECURSIVE RotateLoop(_, _, _, _)
RotateLoop(files, idx, backup_count, platform) ==
    IF idx <= 0 \/ files.error # "" THEN files
    ELSE RotateLoop(
             IF files.fs[idx].exists
             THEN IF idx = backup_count
                  THEN [files EXCEPT !.fs[idx] = NoFile]
                  ELSE Rename(files, idx, idx + 1, platform)
             ELSE files,
             idx - 1, backup_count, platform)

\* _rotate_log_if_needed(log_path, max_bytes, backup_count)
RotateLogIfNeeded(fs, max_bytes, backup_count, platform) ==
    LET files == [fs |-> fs, error |-> "", rotated |-> FALSE]
    IN  IF ~fs[0].exists THEN files
        ELSE IF fs[0].size < max_bytes THEN files
        ELSE LET shifted == RotateLoop(files, backup_count, backup_count, platform)
             IN  IF shifted.error # "" THEN shifted
                 ELSE [Rename(shifted, 0, 1, platform) EXCEPT !.rotated = TRUE]

\* with log_path.open("a") as handle: handle.write(...): the file is made
\* if it is not there, and grows by the line.
AppendLine(fs, generation, bytes) ==
    IF fs[0].exists THEN [fs EXCEPT ![0].size = @ + bytes]
    ELSE [fs EXCEPT ![0] = [exists |-> TRUE, generation |-> generation,
                            size |-> bytes]]

\* The log's directory, the settings of the log, and what the last append
\* found and did.
LogArgs(max_bytes, backup_count, platform) ==
    [fn |-> "_append_event",
     fs |-> NoFiles, max_bytes |-> max_bytes, backup_count |-> backup_count,
     platform |-> platform, appends |-> 0, rotations |-> 0,
     before |-> NoFiles, after |-> NoFiles, rotated |-> FALSE, error |-> ""]

\* _append_integration_event(source, payload) / _append_audit_event(event):
\* the rotation, then the line.
AppendEvent ==
    /\ calc.fn = "_append_event"
    /\ calc.appends < MaxAppends
    /\ \E bytes \in 1..MaxEventBytes :
           LET files == RotateLogIfNeeded(calc.fs, calc.max_bytes,
                                          calc.backup_count, calc.platform)
           IN  calc' = [calc EXCEPT
                            !.appends = @ + 1,
                            !.rotations = IF files.rotated THEN @ + 1 ELSE @,
                            !.before = calc.fs,
                            !.after = files.fs,
                            !.rotated = files.rotated,
                            !.error = files.error,
                            !.fs = IF files.error # "" THEN files.fs
                                   ELSE AppendLine(files.fs, calc.appends + 1, bytes)]
    /\ UNCHANGED <<alerts, incidents, run, source>>

InitLog ==
    /\ alerts = <<>>
    /\ incidents = <<>>
    /\ run = Idle
    /\ source = "volume"
    /\ \E max_bytes \in 1..(MaxEventBytes + 1), backup_count \in 0..MaxBackupCount,
          platform \in {"posix", "nt"} :
           calc = LogArgs(max_bytes, backup_count, platform)

NextLog == AppendEvent

SpecLog == InitLog /\ [][NextLog]_vars

\* The indices of the rotated files.
RotatedIndices(fs) == {k \in LogNames \ {0} : fs[k].exists}

\* At most backup_count rotated files, with indices in 1..backup_count.
BackupsBounded ==
    /\ Cardinality(RotatedIndices(calc.fs)) <= calc.backup_count
    /\ RotatedIndices(calc.fs) \subseteq 1..calc.backup_count

\* The last rotation moved the live log to index 1 and every backup below
\* backup_count one index up, and dropped the backup at backup_count alone.
RotationShifted ==
    calc.rotated =>
        /\ calc.after[0] = NoFile
        /\ calc.after[1] = calc.before[0]
        /\ \A k \in LogNames \ {0} :
               k < calc.backup_count => calc.after[k + 1] = calc.before[k]
        /\ \A k \in LogNames :
               (calc.before[k].exists /\ k # calc.backup_count)
                   => \E j \in LogNames : calc.after[j] = calc.before[k]

\* C30: after any sequence of log appends with size-based rotation via
\* _rotate_log_if_needed(log_path, max_bytes, backup_count), at most
\* backup_count rotated files exist and their indices lie in
\* 1..backup_count; each rotation moves the live log to index 1, shifts
\* every older backup up by one index, and drops only the backup that was at
\* index backup_count.
C30_RotationKeepsBackupCount ==
    calc.fn = "_append_event" => (BackupsBounded /\ RotationShifted)

\* With backup_count of one or more the backups are bounded and each
\* rotation shifts them, and no append raises.
RotationKeepsPositiveBackupCount ==
    (calc.fn = "_append_event" /\ calc.backup_count >= 1)
        => (BackupsBounded /\ RotationShifted /\ calc.error = "")

\* With backup_count of zero every rotation leaves a file at index 1.
ZeroBackupCountKeepsOne ==
    (calc.fn = "_append_event" /\ calc.backup_count = 0 /\ calc.rotations >= 1)
        => RotatedIndices(calc.fs) = {1}

====
